---- MODULE Spec2Model ----
(***************************************************************************)
(* A model of bwavfile: the RIFF/RF64 chunk parser (src/src/parser.rs),    *)
(* the audio frame reader (src/src/wavereader.rs), the sample codec        *)
(* (src/src/fmt.rs, src/src/audio_frame_writer.rs), the wave writer        *)
(* (src/src/wavewriter.rs), the chunk window reader                        *)
(* (src/src/raw_chunk_reader.rs), the format descriptor (src/src/fmt.rs,   *)
(* src/src/common_format.rs) and the validations and metadata reads of     *)
(* WaveReader (src/src/wavereader.rs).                                     *)
(*                                                                         *)
(* Streams are sequences of bytes; stream offsets, field widths in bytes   *)
(* and the order of reads and seeks are those of the source.  In the       *)
(* parser part a byte carries ByteBits bits instead of 8, so that u32 and  *)
(* u64 arithmetic, wrap-around included, stays inside the integers the     *)
(* model checker can represent: a u32 is four such bytes, a u64 eight.     *)
(***************************************************************************)
EXTENDS Integers, Sequences, FiniteSets, TLC

VARIABLES
    build,      \* "debug" (overflow checks panic) or "release" (wrap)
    eofMode,    \* where a failed read_exact leaves the stream: "stay"/"end"
    stream,     \* Parser.stream: the bytes
    pos,        \* Parser.stream: the position of the stream
    state,      \* Parser.state: the State variant
    at,         \* State::ReadyForChunk.at
    remaining,  \* State::ReadyForChunk.remaining
    ds64state,  \* Parser.ds64state: FourCC -> u64
    lastEvent,  \* what the last call of Iterator::next returned
    events,     \* the events next() has returned so far, oldest first
    dropped,    \* TRUE once an event was returned that events has no room for
    layout,     \* how the stream was laid out (record; not read by the parser)
    calls,      \* the number of calls of Iterator::next so far, modulo 2
    phase,      \* which object owns the audio stream: the AudioFrameWriter
                \* ("writing"), the WaveWriter that end() returned ("ended"),
                \* the AudioFrameReader ("reading"), nobody after a panic
    writer,     \* WaveChunkWriter of the data chunk: format, bytes from
                \* content_start_pos on, length
    written,    \* every sample write_integer_frames was given, in order
    reader,     \* AudioFrameReader: format, inner (bytes), pos (position of
                \* inner), start, length
    call,       \* the last call on the writer or reader: arguments, result
    exhausted,  \* TRUE once read_frames left the cursor on the end of the
                \* last whole frame of the chunk
    codec,      \* one frame through write_integer_frame and unpack_frames
    wave,       \* WaveWriter, and the WaveChunkWriter that owns it while the
                \* data chunk is open: inner (bytes), form_length, is_rf64,
                \* ident, content_start_pos, length
    done,       \* what the calls on the WaveWriter did so far: the last
                \* method, the chunks it appended, the header rewrites
    raw,        \* RawChunkReader: the window, its position, the last read
    wavefmt,    \* a WaveFmt and what the last call on it or on a
                \* CommonFormat returned
    opened,     \* WaveReader: inner (bytes) and what the last call returned
    bextio      \* a Bext, the bytes write_bext made of it, what read_bext
                \* made of the bytes

pvars == <<build, eofMode, stream, pos, state, at, remaining, ds64state,
           lastEvent, events, dropped, layout, calls>>

fvars == <<phase, writer, written, reader, call, exhausted>>

cvars == <<codec>>

wvars == <<wave, done>>

rvars == <<raw>>

dvars == <<wavefmt>>

ovars == <<opened>>

bvars == <<bextio>>

vars == <<pvars, fvars, cvars, wvars, rvars, dvars, ovars, bvars>>

-----------------------------------------------------------------------------
(* Bounds *)

ByteBits == 2
MaxChunks == 2
MaxEvents == 8
MaxFrames == 2
PrefixLen == 2

-----------------------------------------------------------------------------
(* Integer widths *)

ByteMod == 2 ^ ByteBits
U32Mod == ByteMod ^ 4
U64Mod == ByteMod ^ 8

\* x as i64, for a u64 x
AsI64(x) == IF x >= U64Mod \div 2 THEN x - U64Mod ELSE x

\* wrapping u64 arithmetic (release builds)
Wrap64(x) == x % U64Mod
Wrap32(x) == x % U32Mod

RF64_SIZE_MARKER == U32Mod - 1

-----------------------------------------------------------------------------
(* FourCC: four bytes, compared by value *)

RIFF_SIG == <<1, 0, 1, 1>>
WAVE_SIG == <<2, 0, 2, 1>>
RF64_SIG == <<1, 1, 2, 3>>
DS64_SIG == <<3, 1, 2, 3>>
BW64_SIG == <<2, 2, 2, 3>>
DATA_SIG == <<3, 0, 3, 0>>
FMT__SIG == <<1, 3, 3, 2>>
JUNK_SIG == <<2, 3, 1, 2>>

-----------------------------------------------------------------------------
(* The byte stream: std::io::Read + Seek *)

RECURSIVE LittleEndian(_)
LittleEndian(bytes) ==
    IF bytes = <<>> THEN 0
    ELSE Head(bytes) + ByteMod * LittleEndian(Tail(bytes))

\* read_exact of n bytes at offset p: fails when fewer than n bytes are left
ReadOk(s, p, n) == p + n <= Len(s)

FailPos(s, p, mode) == IF mode = "end" /\ p < Len(s) THEN Len(s) ELSE p

read_fourcc(s, p) == SubSeq(s, p + 1, p + 4)

read_uint(s, p, n) == LittleEndian(SubSeq(s, p + 1, p + n))

-----------------------------------------------------------------------------
(* Events and results *)

NoSig == <<>>

EmptyTable == [x \in {} |-> 0]

\* HashMap::insert
Insert(tbl, k, v) == [x \in (DOMAIN tbl) \cup {k} |-> IF x = k THEN v ELSE tbl[x]]

Ev(type, signature, a, b, error, sizes) ==
    [type |-> type, signature |-> signature, start |-> a, length |-> b,
     error |-> error, sizes |-> sizes]

StartParseEv == Ev("StartParse", NoSig, 0, 0, "", EmptyTable)
ReadHeaderEv(sig, len) == Ev("ReadHeader", sig, 0, len, "", EmptyTable)
ReadRF64HeaderEv(sig) == Ev("ReadRF64Header", sig, 0, 0, "", EmptyTable)
ReadDS64Ev(fileSize, sizes) == Ev("ReadDS64", NoSig, 0, fileSize, "", sizes)
BeginChunkEv(sig, start, len) == Ev("BeginChunk", sig, start, len, "", EmptyTable)
FailedEv(error) == Ev("Failed", NoSig, 0, 0, error, EmptyTable)
FinishParseEv == Ev("FinishParse", NoSig, 0, 0, "", EmptyTable)
NoneEv == Ev("None", NoSig, 0, 0, "", EmptyTable)

\* What a step of the parser produces: the event, the next State and the
\* side effects on the stream and the table.  kind is "ok", "err" (the ?
\* operator returned an error to advance()) or "panic".
Res(kind, event, st, a, r, p, tbl) ==
    [kind |-> kind, event |-> event, st |-> st, at |-> a, remaining |-> r,
     pos |-> p, ds64 |-> tbl]

\* advance(): an Err from handle_state becomes Failed and State::Error
ErrRes(error, p, tbl) == Res("err", FailedEv(error), "Error", 0, 0, p, tbl)

\* an arithmetic overflow in a build with overflow checks unwinds the caller
PanicEv == Ev("Panic", NoSig, 0, 0, "", EmptyTable)
PanicRes(p, tbl) == Res("panic", PanicEv, "Panicked", 0, 0, p, tbl)

-----------------------------------------------------------------------------
(* Parser::parse_header *)

\* parse_header with the RF64/BW64 arm matching any length field
parse_header_any_length(s, p, tbl, bld, mode) ==
    LET file_sig == read_fourcc(s, p)
        length == read_uint(s, p + 4, 4)
        list_sig == read_fourcc(s, p + 8)
    IN  IF ~ReadOk(s, p, 4) THEN ErrRes("IOError", FailPos(s, p, mode), tbl)
        ELSE IF ~ReadOk(s, p + 4, 4) THEN ErrRes("IOError", FailPos(s, p + 4, mode), tbl)
        ELSE IF ~ReadOk(s, p + 8, 4) THEN ErrRes("IOError", FailPos(s, p + 8, mode), tbl)
        ELSE IF file_sig = RIFF_SIG /\ list_sig = WAVE_SIG
        THEN IF length < 4 /\ bld = "debug" THEN PanicRes(p + 12, tbl)
             ELSE Res("ok", ReadHeaderEv(file_sig, length), "ReadyForChunk",
                      12, Wrap32(length - 4), p + 12, tbl)
        ELSE IF file_sig \in {RF64_SIG, BW64_SIG} /\ list_sig = WAVE_SIG
        THEN Res("ok", ReadRF64HeaderEv(file_sig), "ReadyForDS64", 0, 0, p + 12, tbl)
        ELSE Res("ok", FailedEv("HeaderNotRecognized"), "Error", 0, 0, p + 12, tbl)

parse_header(s, p, tbl, bld, mode) ==
    LET ok1 == ReadOk(s, p, 4)
        ok2 == ReadOk(s, p + 4, 4)
        ok3 == ReadOk(s, p + 8, 4)
        file_sig == read_fourcc(s, p)
        length == read_uint(s, p + 4, 4)
        list_sig == read_fourcc(s, p + 8)
    IN  IF ~ok1 THEN ErrRes("IOError", FailPos(s, p, mode), tbl)
        ELSE IF ~ok2 THEN ErrRes("IOError", FailPos(s, p + 4, mode), tbl)
        ELSE IF ~ok3 THEN ErrRes("IOError", FailPos(s, p + 8, mode), tbl)
        ELSE IF file_sig = RIFF_SIG /\ list_sig = WAVE_SIG
        THEN \* remaining: (length - 4) as u64, a u32 subtraction
             IF length < 4 /\ bld = "debug" THEN PanicRes(p + 12, tbl)
             ELSE Res("ok", ReadHeaderEv(file_sig, length), "ReadyForChunk",
                      12, Wrap32(length - 4), p + 12, tbl)
        ELSE IF file_sig \in {RF64_SIG, BW64_SIG} /\ length = RF64_SIZE_MARKER
                /\ list_sig = WAVE_SIG
        THEN Res("ok", ReadRF64HeaderEv(file_sig), "ReadyForDS64", 0, 0, p + 12, tbl)
        ELSE Res("ok", FailedEv("HeaderNotRecognized"), "Error", 0, 0, p + 12, tbl)

-----------------------------------------------------------------------------
(* Parser::parse_ds64 *)

\* the loop over the override pairs: for _ in 0..field_count
RECURSIVE read_pairs(_, _, _, _, _, _)
read_pairs(s, p, k, tbl, read, mode) ==
    IF k = 0 THEN [ok |-> TRUE, pos |-> p, tbl |-> tbl, read |-> read]
    ELSE IF ~ReadOk(s, p, 4)
    THEN [ok |-> FALSE, pos |-> FailPos(s, p, mode), tbl |-> tbl, read |-> read]
    ELSE IF ~ReadOk(s, p + 4, 8)
    THEN [ok |-> FALSE, pos |-> FailPos(s, p + 4, mode), tbl |-> tbl, read |-> read]
    ELSE read_pairs(s, p + 12, k - 1,
                    Insert(tbl, read_fourcc(s, p), read_uint(s, p + 4, 8)),
                    read + 12, mode)

parse_ds64(s, p, tbl, bld, mode) ==
    LET at0 == 12
        okSig == ReadOk(s, p, 4)
        okSize == ReadOk(s, p + 4, 4)
        ds64_sig == read_fourcc(s, p)
        ds64_size == read_uint(s, p + 4, 4)
        okFile == ReadOk(s, p + 8, 8)
        okData == ReadOk(s, p + 16, 8)
        long_file_size == read_uint(s, p + 8, 8)
        long_data_size == read_uint(s, p + 16, 8)
        \* the frame count is read without ?: a failure is dropped
        okFrames == ReadOk(s, p + 24, 8)
        pCount == IF okFrames THEN p + 32 ELSE FailPos(s, p + 24, mode)
        okCount == ReadOk(s, pCount, 4)
        field_count == read_uint(s, pCount, 4)
        pairs == read_pairs(s, pCount + 4, field_count, tbl, 28, mode)
        table == Insert(pairs.tbl, DATA_SIG, long_data_size)
        \* the result of this seek is dropped
        pEnd == IF pairs.read < ds64_size
                THEN pairs.pos + (ds64_size - pairs.read)
                ELSE pairs.pos
    IN  IF ~okSig THEN ErrRes("IOError", FailPos(s, p, mode), tbl)
        ELSE IF ~okSize THEN ErrRes("IOError", FailPos(s, p + 4, mode), tbl)
        ELSE IF ds64_sig # DS64_SIG THEN ErrRes("MissingRequiredDS64", p + 8, tbl)
        ELSE IF ~okFile THEN ErrRes("IOError", FailPos(s, p + 8, mode), tbl)
        ELSE IF ~okData THEN ErrRes("IOError", FailPos(s, p + 16, mode), tbl)
        ELSE IF ~okCount THEN ErrRes("IOError", FailPos(s, pCount, mode), tbl)
        ELSE IF ~pairs.ok THEN ErrRes("IOError", pairs.pos, pairs.tbl)
        ELSE IF long_file_size < 4 + 8 + ds64_size /\ bld = "debug"
        THEN PanicRes(pEnd, table)
        ELSE Res("ok", ReadDS64Ev(long_file_size, table), "ReadyForChunk",
                 at0 + 8 + ds64_size,
                 Wrap64(long_file_size - (4 + 8 + ds64_size)), pEnd, table)

-----------------------------------------------------------------------------
(* Parser::enter_chunk *)

\* the table consulted only for a local field that holds the marker
chunk_size_marker_only(tbl, this_fourcc, field) ==
    IF this_fourcc \in DOMAIN tbl /\ field = RF64_SIZE_MARKER
    THEN tbl[this_fourcc] ELSE field

\* the size the parser takes for a chunk: the table's, else the local field
chunk_size(tbl, this_fourcc, field) ==
    IF this_fourcc \in DOMAIN tbl THEN tbl[this_fourcc] ELSE field

\* the chunk header read without the RIFF pad rule
displacement_unpadded(this_size) == this_size

\* this_displacement: the size rounded up to even (wrapping)
displacement(this_size) ==
    IF this_size % 2 = 1 THEN Wrap64(this_size + 1) ELSE this_size

enter_chunk(s, p, a, r, tbl, bld, mode) ==
    IF r = 0 THEN Res("ok", FinishParseEv, "Complete", 0, 0, p, tbl)
    ELSE
    LET okSig == ReadOk(s, p, 4)
        okSize == ReadOk(s, p + 4, 4)
        this_fourcc == read_fourcc(s, p)
        this_size == chunk_size(tbl, this_fourcc, read_uint(s, p + 4, 4))
        odd == this_size % 2 = 1
        this_displacement == displacement(this_size)
        seekTo == (p + 8) + AsI64(this_displacement)
        overflow ==
            \/ a + 8 >= U64Mod
            \/ Wrap64(a + 8) + this_displacement >= U64Mod
            \/ r < 8
            \/ r - 8 < this_displacement
    IN  IF ~okSig THEN ErrRes("IOError", FailPos(s, p, mode), tbl)
        ELSE IF ~okSize THEN ErrRes("IOError", FailPos(s, p + 4, mode), tbl)
        ELSE IF odd /\ this_size + 1 >= U64Mod /\ bld = "debug"
        THEN PanicRes(p + 8, tbl)
        ELSE IF seekTo < 0 THEN ErrRes("IOError", p + 8, tbl)
        ELSE IF overflow /\ bld = "debug" THEN PanicRes(seekTo, tbl)
        ELSE Res("ok", BeginChunkEv(this_fourcc, Wrap64(a + 8), this_size),
                 "ReadyForChunk",
                 Wrap64(a + 8 + this_displacement),
                 Wrap64(r - 8 - this_displacement), seekTo, tbl)

-----------------------------------------------------------------------------
(* The streams the parser is run on *)

\* v as n little-endian bytes
RECURSIVE LEBytes(_, _)
LEBytes(v, n) ==
    IF n = 0 THEN <<>> ELSE <<v % ByteMod>> \o LEBytes(v \div ByteMod, n - 1)

Zeros(n) == [i \in 1..n |-> 0]

\* RIFF pad rule: odd content is followed by one pad byte
Padded(n) == IF n % 2 = 1 THEN n + 1 ELSE n

RECURSIVE Concat(_)
Concat(seqs) == IF seqs = <<>> THEN <<>> ELSE Head(seqs) \o Concat(Tail(seqs))

RECURSIVE SumSeq(_)
SumSeq(ns) == IF ns = <<>> THEN 0 ELSE Head(ns) + SumSeq(Tail(ns))

SeqsUpTo(S, n) == UNION {[1..k -> S] : k \in 0..n}

\* a chunk as laid out: signature, the local 32-bit size field, and the
\* number of bytes that follow the header before the next chunk
Chunk(sig, field, content) == [sig |-> sig, field |-> field, content |-> content]

ChunkBytes(c) == c.sig \o LEBytes(c.field, 4) \o Zeros(c.content)

ChunksBytes(cs) == Concat([i \in 1..Len(cs) |-> ChunkBytes(cs[i])])

ChunksLength(cs) == SumSeq([i \in 1..Len(cs) |-> 8 + cs[i].content])

\* the ds64 chunk as laid out
Ds64Bytes(d) ==
    d.sig \o LEBytes(d.size, 4) \o LEBytes(d.file_size, 8)
      \o LEBytes(d.data_size, 8) \o Zeros(8) \o LEBytes(d.count, 4)
      \o Concat([i \in 1..Len(d.pairs) |->
                   d.pairs[i][1] \o LEBytes(d.pairs[i][2], 8)])
      \o Zeros(d.extra)

NoDs64 == [present |-> FALSE]

LayoutBytes(l) ==
    LET full == l.form \o LEBytes(l.size, 4) \o l.list
                  \o (IF l.ds64.present THEN Ds64Bytes(l.ds64) ELSE <<>>)
                  \o ChunksBytes(l.chunks)
    IN  SubSeq(full, 1, IF l.cut > Len(full) THEN 0 ELSE Len(full) - l.cut)

\* plain RIFF/WAVE files: every chunk holds what it declares
RiffChunkKinds ==
    {Chunk(sig, n, Padded(n)) : sig \in {FMT__SIG, DATA_SIG, JUNK_SIG}, n \in {0, 1, 2}}

RiffExact(cs) == 4 + ChunksLength(cs)

\* ways a RIFF file departs from its declared form: <<size field, bytes cut>>
RiffDeviations(cs) ==
    { <<RiffExact(cs), 0>>, <<RiffExact(cs) + 1, 0>>, <<RiffExact(cs) + 8, 0>>,
      <<2, 0>>, <<RF64_SIZE_MARKER, 0>>, <<RiffExact(cs), 1>>, <<RiffExact(cs), 3>> }

RiffLayout(cs, size, cut) ==
    [form |-> RIFF_SIG, size |-> size, list |-> WAVE_SIG, ds64 |-> NoDs64,
     chunks |-> cs, cut |-> cut]

RiffLayouts ==
    UNION { { RiffLayout(cs, d[1], d[2]) : d \in RiffDeviations(cs) } :
            cs \in SeqsUpTo(RiffChunkKinds, MaxChunks) }

\* headers the parser must tell apart, and streams that end inside the header
HeaderLayouts ==
    LET cs == <<Chunk(FMT__SIG, 2, 2)>>
    IN  { [form |-> h[1], size |-> h[2], list |-> h[3], ds64 |-> NoDs64,
           chunks |-> cs, cut |-> 0] :
            h \in { <<RIFF_SIG, RiffExact(cs), FMT__SIG>>,
                    <<JUNK_SIG, RiffExact(cs), WAVE_SIG>>,
                    <<RF64_SIG, RiffExact(cs), WAVE_SIG>>,
                    <<BW64_SIG, RiffExact(cs), WAVE_SIG>>,
                    <<RF64_SIG, RF64_SIZE_MARKER, FMT__SIG>>,
                    <<RIFF_SIG, RF64_SIZE_MARKER, FMT__SIG>> } }
        \cup { RiffLayout(cs, RiffExact(cs), cut) : cut \in {12, 16, 20, 22} }

\* RF64/BW64 files
Rf64ChunkKinds ==
    { Chunk(FMT__SIG, 2, 2), Chunk(DATA_SIG, RF64_SIZE_MARKER, 2),
      Chunk(JUNK_SIG, 1, 2) }

\* <<the ds64 data size, the override pairs>>
TableVariants ==
    { <<2, <<>>>>, <<1, <<>>>>, <<0, <<>>>>, <<U64Mod - 8, <<>>>>,
      <<U64Mod - 1, <<>>>>,
      <<2, << <<FMT__SIG, U64Mod - 16>> >> >>,
      <<2, << <<JUNK_SIG, 2>> >> >>,
      <<2, << <<DATA_SIG, 4>>, <<FMT__SIG, 2>> >> >> }

Ds64(sig, size, file_size, tv, count, extra) ==
    [present |-> TRUE, sig |-> sig, size |-> size, file_size |-> file_size,
     data_size |-> tv[1], count |-> count, pairs |-> tv[2], extra |-> extra]

Rf64Layout(form, d, cs, cut) ==
    [form |-> form, size |-> RF64_SIZE_MARKER, list |-> WAVE_SIG, ds64 |-> d,
     chunks |-> cs, cut |-> cut]

\* a ds64 chunk that declares what it holds, and the ways it may not
Rf64Variants(cs, tv) ==
    LET n == Len(tv[2])
        size == 28 + 12 * n
        file == 4 + 8 + size + ChunksLength(cs)
    IN  { Rf64Layout(RF64_SIG, Ds64(DS64_SIG, size, file, tv, n, 0), cs, 0),
          Rf64Layout(BW64_SIG, Ds64(DS64_SIG, size, file, tv, n, 0), cs, 0),
          Rf64Layout(RF64_SIG, Ds64(JUNK_SIG, size, file, tv, n, 0), cs, 0),
          Rf64Layout(RF64_SIG, Ds64(DS64_SIG, 0, file, tv, n, 0), cs, 0),
          Rf64Layout(RF64_SIG, Ds64(DS64_SIG, size + 4, file + 4, tv, n, 4), cs, 0),
          Rf64Layout(RF64_SIG, Ds64(DS64_SIG, size + 4, file, tv, n, 0), cs, 0),
          Rf64Layout(RF64_SIG, Ds64(DS64_SIG, size, file, tv, n + 1, 0), cs, 0),
          Rf64Layout(RF64_SIG, Ds64(DS64_SIG, size, 0, tv, n, 0), cs, 0),
          Rf64Layout(RF64_SIG, Ds64(DS64_SIG, size, file + 8, tv, n, 0), cs, 0),
          Rf64Layout(RF64_SIG, Ds64(DS64_SIG, size, file, tv, n, 0), cs, 2),
          Rf64Layout(RF64_SIG, Ds64(DS64_SIG, size, file, tv, n, 0), cs,
                     ChunksLength(cs) + 12 * n + 8) }

Rf64Layouts ==
    UNION { Rf64Variants(c[1], c[2]) :
            c \in SeqsUpTo(Rf64ChunkKinds, MaxChunks) \X TableVariants }

Layouts == RiffLayouts \cup HeaderLayouts \cup Rf64Layouts

-----------------------------------------------------------------------------
(* The values of the variables of an object that does not exist *)

NoFormat == [channel_count |-> 0, bits_per_sample |-> 0, block_alignment |-> 0]

NoWriter == [format |-> NoFormat, bytes |-> <<>>, length |-> 0]

NoReader == [format |-> NoFormat, inner |-> <<>>, pos |-> 0, start |-> 0, length |-> 0]

\* op: the method; n, type: the length and the sample type of the buffer;
\* to: the argument of locate, in a read_frames call that of the locate
\* called just before it; from: the position of the stream before a
\* read_frames call; after: the method called before a read_frames call;
\* kind: "ok", "err" or "panic"; value: the u64 of Ok; buffer: the buffer
\* after the call
Call(op, n, type, to, from, after, kind, value, error, buffer) ==
    [op |-> op, n |-> n, type |-> type, to |-> to, from |-> from, after |-> after,
     kind |-> kind, value |-> value, error |-> error, buffer |-> buffer]

NoCall == Call("none", 0, "", 0, 0, "none", "ok", 0, "", <<>>)

NoCodec == [stage |-> "none", bits |-> 0, frame |-> <<>>, bytes |-> <<>>, out |-> <<>>]

FrameIdle ==
    /\ phase = "idle"
    /\ writer = NoWriter
    /\ written = <<>>
    /\ reader = NoReader
    /\ call = NoCall
    /\ exhausted = FALSE

CodecIdle == codec = NoCodec

NoFile ==
    [stage |-> "none", kind |-> "ok", inner |-> <<>>, form_length |-> 0,
     is_rf64 |-> FALSE, format |-> NoFormat, ident |-> <<>>,
     content_start_pos |-> 0, length |-> 0, rewrites |-> 0]

NoneDone == [op |-> "none", chunks |-> <<>>, audio |-> 0, writes |-> 0, appends |-> 0]

WriterIdle == wave = NoFile /\ done = NoneDone

NoRaw ==
    [start |-> 0, length |-> 0, position |-> 0, op |-> "none", n |-> 0,
     from |-> 0, kind |-> "ok", value |-> 0, error |-> "", offset |-> 0]

RawIdle == raw = NoRaw

None == [some |-> FALSE, valid_bits_per_sample |-> 0, channel_mask |-> {}, type_guid |-> <<>>]

NoDescriptor ==
    [channel_count |-> 0, bits_per_sample |-> 0, block_alignment |-> 0, tag |-> 0,
     sample_rate |-> 0, bytes_per_second |-> 0, extended_format |-> None]

NoCommon == [tag |-> 0, variant |-> "", uuid |-> <<>>]

\* op: the last call; kind: "ok" or "panic"; bits, bitmap: the bits per
\* sample and the channel bitmap a constructor was given; format: the
\* WaveFmt; channels, reader_channels: what WaveFmt::channels and
\* WaveReader::channels returned for it; first, common: the CommonFormat
\* of the first and of the last make; taken: what take returned
NoFmt ==
    [kind |-> "ok", format |-> NoDescriptor, op |-> "none", bits |-> 0, bitmap |-> {},
     channels |-> <<>>, reader_channels |-> <<>>,
     first |-> NoCommon, common |-> NoCommon, taken |-> [tag |-> 0, uuid |-> <<>>]]

FmtIdle == wavefmt = NoFmt

\* inner: the bytes of the file; open: a WaveReader exists; op: the last
\* call; kind, error, signature, actual, value: what it returned; before,
\* buffer: the caller's Vec before and after a read
NoOpened ==
    [inner |-> <<>>, open |-> FALSE, op |-> "none", kind |-> "ok", error |-> "",
     signature |-> <<>>, value |-> 0, actual |-> 0, before |-> <<>>, buffer |-> <<>>]

OpenedIdle == opened = NoOpened

NoBextRecord ==
    [description |-> <<>>, originator |-> <<>>, originator_reference |-> <<>>,
     origination_date |-> <<>>, origination_time |-> <<>>, time_reference |-> 0,
     version |-> 0, umid |-> <<>>, loudness_value |-> <<>>, loudness_range |-> <<>>,
     max_true_peak_level |-> <<>>, max_momentary_loudness |-> <<>>,
     max_short_term_loudness |-> <<>>, coding_history |-> <<>>]

\* op: the last call; bext: the record given to write_bext; bytes: what
\* it wrote; kind: "ok" or "err" of read_bext; read: the record it returned
NoBext ==
    [op |-> "none", bext |-> NoBextRecord, bytes |-> <<>>, kind |-> "ok",
     read |-> NoBextRecord]

BextIdle == bextio = NoBext

-----------------------------------------------------------------------------
(* Parser::make, and Iterator::next for each State *)

NotCalledEv == Ev("NotCalled", NoSig, 0, 0, "", EmptyTable)

ParserInit ==
    /\ build \in {"debug", "release"}
    /\ eofMode \in {"stay", "end"}
    /\ layout \in Layouts
    /\ stream = LayoutBytes(layout)
    /\ pos = 0
    /\ state = "New"
    /\ at = 0
    /\ remaining = 0
    /\ ds64state = EmptyTable
    /\ lastEvent = NotCalledEv
    /\ events = <<>>
    /\ dropped = FALSE
    /\ calls = 0
    /\ FrameIdle
    /\ CodecIdle
    /\ WriterIdle
    /\ RawIdle
    /\ FmtIdle
    /\ OpenedIdle
    /\ BextIdle

\* next(): self.state = next_state; return event
Return(res) ==
    /\ state' = res.st
    /\ at' = res.at
    /\ remaining' = res.remaining
    /\ pos' = res.pos
    /\ ds64state' = res.ds64
    /\ lastEvent' = res.event
    /\ events' = IF res.kind = "panic" \/ Len(events) >= MaxEvents
                  THEN events ELSE Append(events, res.event)
    /\ dropped' = (dropped \/ (res.kind # "panic" /\ Len(events) >= MaxEvents))
    /\ calls' = 1 - calls
    /\ UNCHANGED <<build, eofMode, stream, layout, fvars, cvars, wvars, rvars, dvars, ovars, bvars>>

NextNew ==
    /\ state = "New"
    /\ Return(Res("ok", StartParseEv, "ReadyForHeader", 0, 0, pos, ds64state))

NextHeader ==
    /\ state = "ReadyForHeader"
    /\ Return(parse_header(stream, pos, ds64state, build, eofMode))

NextDS64 ==
    /\ state = "ReadyForDS64"
    /\ Return(parse_ds64(stream, pos, ds64state, build, eofMode))

NextChunk ==
    /\ state = "ReadyForChunk"
    /\ Return(enter_chunk(stream, pos, at, remaining, ds64state, build, eofMode))

NextError ==
    /\ state = "Error"
    /\ Return(Res("ok", FinishParseEv, "Complete", 0, 0, pos, ds64state))

NextComplete ==
    /\ state = "Complete"
    /\ lastEvent' = NoneEv
    /\ calls' = 1 - calls
    /\ UNCHANGED <<build, eofMode, stream, pos, state, at, remaining, ds64state,
                   events, dropped, layout, fvars, cvars, wvars, rvars, dvars, ovars, bvars>>

ParserNext ==
    \/ NextNew
    \/ NextHeader
    \/ NextDS64
    \/ NextChunk
    \/ NextError
    \/ NextComplete

NoLayout == RiffLayout(<<>>, 4, 0)

\* the parser of a stream the other objects of the model do not touch
ParserIdle ==
    /\ layout = NoLayout
    /\ stream = <<>>
    /\ pos = 0
    /\ state = "New"
    /\ at = 0
    /\ remaining = 0
    /\ ds64state = EmptyTable
    /\ lastEvent = NotCalledEv
    /\ events = <<>>
    /\ dropped = FALSE
    /\ calls = 0

ParserSpec == ParserInit /\ [][ParserNext]_vars

\* the caller keeps calling next() until it returns None
ParserFairSpec == ParserSpec /\ WF_vars(ParserNext)

-----------------------------------------------------------------------------
(* Parser::into_chunk_iterator and Parser::into_chunk_list *)

Indices(evs, type) == {i \in 1..Len(evs) : evs[i].type = type}

Min(S) == CHOOSE x \in S : \A y \in S : x <= y

\* a chunk list that keeps the chunks found before a Failed event
into_chunk_list_partial(evs) ==
    LET failed == Indices(evs, "Failed")
        item(e) == [signature |-> e.signature, start |-> e.start, length |-> e.length]
        kept == SubSeq(evs, 1, IF failed = {} THEN Len(evs) ELSE Min(failed) - 1)
        begins == SelectSeq(kept, LAMBDA e : e.type = "BeginChunk")
    IN  [ok |-> failed = {} \/ begins # <<>>,
         error |-> IF failed = {} \/ begins # <<>> THEN "" ELSE evs[Min(failed)].error,
         chunks |-> [i \in 1..Len(begins) |-> item(begins[i])]]

\* Ok(chunks) when no Failed event was returned, else Err(the first error);
\* the chunks before a Failed event are dropped
into_chunk_list(evs) ==
    LET failed == Indices(evs, "Failed")
        item(e) == [signature |-> e.signature, start |-> e.start, length |-> e.length]
        begins == SelectSeq(evs, LAMBDA e : e.type = "BeginChunk")
    IN  IF failed # {}
        THEN [ok |-> FALSE, error |-> evs[Min(failed)].error, chunks |-> <<>>]
        ELSE [ok |-> TRUE, error |-> "",
              chunks |-> [i \in 1..Len(begins) |-> item(begins[i])]]

\* the iteration into_chunk_list drives has ended and events holds all of it
ListReturned == state = "Complete" /\ ~dropped

-----------------------------------------------------------------------------
(* C1 *)

\* C1: iterating the Parser over any finite stream returns finitely many
\* events: the iteration stops (in Complete, or by aborting the process),
\* it does not return BeginChunk events forever.
C1_ParserStops == <>(state \in {"Complete", "Panicked"})

-----------------------------------------------------------------------------
(* C2 *)

WellFormedRiff(l) ==
    /\ l.form = RIFF_SIG
    /\ l.list = WAVE_SIG
    /\ ~l.ds64.present
    /\ l.cut = 0
    /\ \A i \in 1..Len(l.chunks) : l.chunks[i].content = Padded(l.chunks[i].field)
    /\ l.size = 4 + ChunksLength(l.chunks)

\* C2: for a well-formed RIFF/WAVE stream with chunks c1..cn, into_chunk_list
\* returns n entries with the signatures in file order; the first content
\* start is 20, each length is the declared size, and each later start is the
\* previous start + previous length + 8 + 1 if the previous length is odd.
C2_DirectoryOfWellFormedRiff ==
    (WellFormedRiff(layout) /\ state \in {"Complete", "Error", "Panicked"}) =>
        LET r == into_chunk_list(events)
            cs == layout.chunks
        IN  /\ state = "Complete"
            /\ ~dropped
            /\ r.ok
            /\ Len(r.chunks) = Len(cs)
            /\ \A i \in 1..Len(cs) :
                  /\ r.chunks[i].signature = cs[i].sig
                  /\ r.chunks[i].length = cs[i].field
                  /\ i = 1 => r.chunks[i].start = 20
                  /\ i > 1 => r.chunks[i].start =
                        r.chunks[i - 1].start + r.chunks[i - 1].length + 8
                          + (IF r.chunks[i - 1].length % 2 = 1 THEN 1 ELSE 0)

C2_Witness ==
    /\ WellFormedRiff(layout)
    /\ state = "Complete"
    /\ Len(layout.chunks) = MaxChunks
    /\ layout.chunks[1].field % 2 = 1
    /\ Len(into_chunk_list(events).chunks) = MaxChunks

-----------------------------------------------------------------------------
(* C3 *)

\* the table the ds64 chunk of the layout describes: the override pairs in
\* order, then data -> the data-size field
RECURSIVE TableOf(_, _)
TableOf(pairs, tbl) ==
    IF pairs = <<>> THEN tbl
    ELSE TableOf(Tail(pairs), Insert(tbl, Head(pairs)[1], Head(pairs)[2]))

EvenUp(n) == IF n % 2 = 1 THEN (n + 1) % U64Mod ELSE n

\* C3: in an RF64/BW64 stream the table holds data -> the ds64 data size and
\* every override pair; a chunk whose signature is in the table is reported
\* with the table's value whatever its 32-bit field holds, and the parser
\* advances by that value; any other chunk is reported with its 32-bit
\* field.  In a plain RIFF stream the table is empty.
C3_TableOverridesLocalSize ==
    [][ /\ (state = "ReadyForDS64" /\ state' = "ReadyForChunk"
             /\ layout.ds64.count = Len(layout.ds64.pairs)
             /\ layout.cut <= ChunksLength(layout.chunks)) =>
               /\ DATA_SIG \in DOMAIN ds64state'
               /\ ds64state'[DATA_SIG] = layout.ds64.data_size
               /\ ds64state' =
                    Insert(TableOf(layout.ds64.pairs, EmptyTable), DATA_SIG,
                           layout.ds64.data_size)
        /\ (state = "ReadyForChunk" /\ lastEvent'.type = "BeginChunk") =>
              LET sig == SubSeq(stream, pos + 1, pos + 4)
                  field == LittleEndian(SubSeq(stream, pos + 5, pos + 8))
                  size == IF sig \in DOMAIN ds64state THEN ds64state[sig] ELSE field
              IN  /\ lastEvent'.signature = sig
                  /\ lastEvent'.length = size
                  /\ pos' = pos + 8 + AsI64(EvenUp(size))
                  /\ (layout.form = RIFF_SIG) => (ds64state = EmptyTable /\ size = field)
      ]_vars

\* a chunk whose local field is not the marker was reported with the
\* table's value
C3_Witness ==
    /\ lastEvent.type = "BeginChunk"
    /\ lastEvent.signature = FMT__SIG
    /\ lastEvent.length = U64Mod - 16
    /\ Len(events) >= 4
    /\ events[3].type = "ReadDS64"

-----------------------------------------------------------------------------
(* C4 *)

Overlap(a, b) ==
    a.start < b.start + b.length /\ b.start < a.start + a.length

\* C4: every directory into_chunk_list returns has, for each entry,
\* content_start + content_length <= the length of the stream, and no two
\* entries overlap; a stream shorter than its headers declare fails.
C4_DirectoryInsideStream ==
    (ListReturned /\ into_chunk_list(events).ok) =>
        LET cs == into_chunk_list(events).chunks
        IN  /\ \A i \in 1..Len(cs) : cs[i].start + cs[i].length <= Len(stream)
            /\ \A i, j \in 1..Len(cs) : i < j => ~Overlap(cs[i], cs[j])

-----------------------------------------------------------------------------
(* Samples and their bytes.  From here on a byte has 8 bits. *)

\* the sample types a frame buffer can have (dasp_sample::Sample)
SampleTypes == {"u8", "i16", "I24", "i32"}

Width(S) ==
    CASE S = "u8" -> 8 [] S = "i16" -> 16 [] S = "I24" -> 24 [] S = "i32" -> 32

\* S::EQUILIBRIUM
EQUILIBRIUM(S) == IF S = "u8" THEN 128 ELSE 0

\* the type read_frames reads from a file of this bit depth
FileType(bits) ==
    CASE bits = 8 -> "u8" [] bits = 16 -> "i16" [] bits = 24 -> "I24" [] bits = 32 -> "i32"

MinSample(bits) == (0 - 2 ^ (bits - 2)) * 2
MaxSample(bits) == 2 * (2 ^ (bits - 2) - 1) + 1

\* the sample as the number it stands for, whatever the width of S
to_sample_right_aligned(s, from, S) == IF from = "u8" THEN s - 128 ELSE s

\* s.to_sample::<S>() for s of type from: the amplitude is kept, so the
\* value is shifted to the width of S; u8 is offset by 128
to_sample(s, from, S) ==
    LET signed == IF from = "u8" THEN s - 128 ELSE s
        w == Width(from)
        W == Width(S)
        scaled == IF W >= w THEN signed * 2 ^ (W - w) ELSE signed \div 2 ^ (w - W)
    IN  IF S = "u8" THEN scaled + 128 ELSE scaled

\* little-endian two's complement
RECURSIVE SignedLE(_)
SignedLE(bytes) ==
    IF Len(bytes) = 1
    THEN (IF bytes[1] >= 128 THEN bytes[1] - 256 ELSE bytes[1])
    ELSE Head(bytes) + 256 * SignedLE(Tail(bytes))

RECURSIVE UnsignedLE(_)
UnsignedLE(bytes) ==
    IF bytes = <<>> THEN 0 ELSE Head(bytes) + 256 * UnsignedLE(Tail(bytes))

\* the n little-endian bytes of v, two's complement, high bits dropped
SignedBytes(v, n) == [i \in 1..n |-> (v \div 256 ^ (i - 1)) % 256]

read_u8(bytes) == bytes[1]

read_i16(bytes) == SignedLE(bytes)

read_u24(bytes) == UnsignedLE(bytes)

read_i24(bytes) == SignedLE(bytes)

read_i32(bytes) == SignedLE(bytes)

Min2(a, b) == IF a <= b THEN a ELSE b

Max2(a, b) == IF a >= b THEN a ELSE b

-----------------------------------------------------------------------------
(* WaveFmt *)

\* WaveFmt::new_pcm_mono, new_pcm_stereo: integer PCM, tag 1
WaveFmt(bits_per_sample, channel_count) ==
    LET container_bits_per_sample == bits_per_sample + (bits_per_sample % 8)
        container_bytes_per_sample == container_bits_per_sample \div 8
    IN  [channel_count |-> channel_count,
         bits_per_sample |-> container_bits_per_sample,
         block_alignment |-> container_bytes_per_sample * channel_count]

Formats ==
    {WaveFmt(8, 1), WaveFmt(16, 1), WaveFmt(16, 2), WaveFmt(24, 1), WaveFmt(32, 1)}

\* WaveFmt::create_frame_buffer, for a buffer of n samples
create_frame_buffer(S, n) == [i \in 1..n |-> EQUILIBRIUM(S)]

\* WaveFmt::create_raw_buffer
create_raw_buffer(format, length) == [i \in 1..(format.block_alignment * length) |-> 0]

\* one sample of WaveFmt::pack_frames
pack_sample(v, bits) ==
    CASE bits = 8 -> <<(v + 128) % 256>>
      [] bits = 16 -> SignedBytes(v, 2)
      [] bits = 24 -> SignedBytes(v, 3)
      [] bits = 32 -> SignedBytes(v, 4)

\* WaveFmt::pack_frames(from_frames, to_buffer): the buffer afterwards
pack_frames(format, from_frames, to_buffer) ==
    LET packed == Concat([i \in 1..Len(from_frames) |->
                             pack_sample(from_frames[i], format.bits_per_sample)])
    IN  [i \in 1..Len(to_buffer) |-> IF i <= Len(packed) THEN packed[i] ELSE to_buffer[i]]

\* one arm of the match of WaveFmt::unpack_frames
unpack_sample(bytes, bits) ==
    CASE bits = 8 -> read_u8(bytes) - 128
      [] bits = 16 -> read_i16(bytes)
      [] bits = 24 -> read_i24(bytes)
      [] bits = 32 -> read_i32(bytes)

\* WaveFmt::unpack_frames(from_bytes, into_frames), into_frames holding n
\* samples: every read is unwrapped, so running out of bytes panics
unpack_frames(bits, from_bytes, n) ==
    LET width == bits \div 8
    IN  IF n * width > Len(from_bytes)
        THEN [panic |-> TRUE, frames |-> <<>>]
        ELSE [panic |-> FALSE,
              frames |-> [i \in 1..n |->
                  unpack_sample(SubSeq(from_bytes, (i - 1) * width + 1, i * width), bits)]]

-----------------------------------------------------------------------------
(* audio_frame_writer.rs: AudioFrameWriter::write_integer_frame *)

\* buffer[n] as u8 + 0x80_u8: the sum of two u8
biased_u8(v, bld) ==
    LET sum == (v % 256) + 128
    IN  IF sum >= 256 /\ bld = "debug"
        THEN [panic |-> TRUE, bytes |-> <<>>]
        ELSE [panic |-> FALSE, bytes |-> <<sum % 256>>]

\* one arm of the match
write_sample(v, bits, bld) ==
    CASE bits = 8 -> biased_u8(v, bld)
      [] bits = 16 -> [panic |-> FALSE, bytes |-> SignedBytes(v, 2)]
      [] bits = 24 -> [panic |-> FALSE, bytes |-> SignedBytes(v, 3)]
      [] bits = 32 -> [panic |-> FALSE, bytes |-> SignedBytes(v, 4)]

\* the loop over the channels: the bytes written, up to a panic
RECURSIVE write_integer_frame(_, _, _)
write_integer_frame(buffer, bits, bld) ==
    IF buffer = <<>> THEN [panic |-> FALSE, bytes |-> <<>>]
    ELSE LET first == write_sample(Head(buffer), bits, bld)
             rest == write_integer_frame(Tail(buffer), bits, bld)
         IN  IF first.panic THEN first
             ELSE [panic |-> rest.panic, bytes |-> first.bytes \o rest.bytes]

\* the frames handed to the codec: every 8-bit value, the ends and the
\* middle of the wider ranges
CodecSamples(bits) ==
    IF bits = 8 THEN MinSample(8)..MaxSample(8)
    ELSE {MinSample(bits), MinSample(bits) + 1, -257, -256, -129, -128, -1, 0, 1,
          127, 128, 255, 256, MaxSample(bits) - 1, MaxSample(bits)}

CodecFrames(bits) ==
    {<<v>> : v \in CodecSamples(bits)} \cup {<<v, 0 - 1 - v>> : v \in CodecSamples(bits)}

EdgeBytes == {0, 1, 127, 128, 255}

\* the byte strings handed to unpack_frames: one sample each
CodecBytes(bits) ==
    IF bits = 8 THEN {<<b>> : b \in 0..255}
    ELSE [1..(bits \div 8) -> EdgeBytes]

CodecInit ==
    /\ build \in {"debug", "release"}
    /\ eofMode = "stay"
    /\ ParserIdle
    /\ FrameIdle
    /\ WriterIdle
    /\ RawIdle
    /\ FmtIdle
    /\ OpenedIdle
    /\ BextIdle
    /\ \E bits \in {8, 16, 24, 32} :
          \/ \E f \in CodecFrames(bits) :
                codec = [stage |-> "frame", bits |-> bits, frame |-> f,
                         bytes |-> <<>>, out |-> <<>>]
          \/ \E bs \in CodecBytes(bits) :
                codec = [stage |-> "bytes", bits |-> bits, frame |-> <<>>,
                         bytes |-> bs, out |-> <<>>]

WriteIntegerFrame ==
    /\ codec.stage = "frame"
    /\ LET r == write_integer_frame(codec.frame, codec.bits, build)
       IN  codec' = [codec EXCEPT !.stage = IF r.panic THEN "panicked" ELSE "written",
                                  !.bytes = r.bytes]
    /\ UNCHANGED <<pvars, fvars, wvars, rvars, dvars, ovars, bvars>>

UnpackFrames ==
    /\ codec.stage \in {"bytes", "written"}
    /\ LET r == unpack_frames(codec.bits, codec.bytes,
                              Len(codec.bytes) \div (codec.bits \div 8))
       IN  codec' = [codec EXCEPT !.stage = IF r.panic THEN "panicked" ELSE "unpacked",
                                  !.out = r.frames]
    /\ UNCHANGED <<pvars, fvars, wvars, rvars, dvars, ovars, bvars>>

CodecNext ==
    \/ WriteIntegerFrame
    \/ UnpackFrames

CodecSpec == CodecInit /\ [][CodecNext]_vars

-----------------------------------------------------------------------------
(* wavewriter.rs: AudioFrameWriter over the WaveChunkWriter of the data chunk *)

\* the samples a caller writes
Samples(bits) == {MinSample(bits), -100, 100, MaxSample(bits)}

\* the buffers a caller writes: one frame; for two channels the second
\* sample is the complement of the first, or is missing
WriteBuffers(format) ==
    IF format.channel_count = 1
    THEN {<<v>> : v \in Samples(format.bits_per_sample)}
    ELSE {<<v, 0 - 1 - v>> : v \in Samples(format.bits_per_sample)} \cup {<<0>>}

\* AudioFrameWriter::write_integer_frames
WriteIntegerFrames ==
    /\ phase = "writing"
    /\ Len(written) < MaxFrames * writer.format.channel_count
    /\ \E buffer \in WriteBuffers(writer.format) :
          LET channel_count == writer.format.channel_count
              write_buffer == pack_frames(writer.format, buffer,
                                create_raw_buffer(writer.format, Len(buffer) \div channel_count))
              c(kind, value) == Call("write", Len(buffer), "i32", 0, 0, "none",
                                     kind, value, "", buffer)
          IN  IF Len(buffer) % channel_count # 0
              THEN /\ phase' = "panicked"
                   /\ call' = c("panic", 0)
                   /\ UNCHANGED <<writer, written>>
              ELSE /\ writer' = [writer EXCEPT !.bytes = @ \o write_buffer,
                                               !.length = @ + Len(write_buffer)]
                   /\ written' = written \o buffer
                   /\ call' = c("ok", Len(write_buffer) \div channel_count)
                   /\ UNCHANGED phase
    /\ UNCHANGED <<pvars, cvars, wvars, rvars, dvars, ovars, bvars, reader, exhausted>>

\* AudioFrameWriter::end, WaveChunkWriter::end
End ==
    /\ phase = "writing"
    /\ phase' = "ended"
    /\ writer' = [writer EXCEPT !.bytes = IF writer.length % 2 = 1 THEN @ \o <<0>> ELSE @]
    /\ call' = Call("end", 0, "", 0, 0, "none", "ok", 0, "", <<>>)
    /\ UNCHANGED <<pvars, cvars, wvars, rvars, dvars, ovars, bvars, written, reader, exhausted>>

-----------------------------------------------------------------------------
(* wavereader.rs: AudioFrameReader *)

\* the bytes of a stream nobody wrote through the model
PatternByte(i) == (i * 37 + 91) % 256

Pattern(n) == [i \in 1..n |-> PatternByte(i)]

\* AudioFrameReader::new
AudioFrameReader_new(inner, format, start, length) ==
    [format |-> format, inner |-> inner, pos |-> start, start |-> start, length |-> length]

\* data chunks of nframes frames and partial bytes more, trail bytes behind
DataChunks(format) ==
    {[length |-> nframes * format.block_alignment + partial, trail |-> trail] :
        nframes \in 0..MaxFrames,
        partial \in {0, Min2(1, format.block_alignment - 1)},
        trail \in {0, format.block_alignment}}

\* WaveReader::audio_frame_reader on the stream the writer left
Open ==
    /\ phase = "ended"
    /\ phase' = "reading"
    /\ reader' = AudioFrameReader_new(Pattern(PrefixLen) \o writer.bytes, writer.format,
                                      PrefixLen, writer.length)
    /\ call' = Call("open", 0, "", 0, 0, "none", "ok", 0, "", <<>>)
    /\ UNCHANGED <<pvars, cvars, wvars, rvars, dvars, ovars, bvars, writer, written, exhausted>>

\* one arm of the match of read_frames: the sample in the bytes
read_sample(bytes, bits) ==
    CASE bits = 8 -> read_u8(bytes)
      [] bits = 16 -> read_i16(bytes)
      [] bits = 24 -> read_i24(bytes)
      [] bits = 32 -> read_i32(bytes)

\* Error::InvalidBufferSize { buffer_size, channel_count }
InvalidBufferSize(buffer_size, channel_count) ==
    [error |-> "InvalidBufferSize", buffer_size |-> buffer_size,
     channel_count |-> channel_count]

invalid_buffer_size_never(len, channel_count) == FALSE

\* buffer.len() % channel_count != 0
invalid_buffer_size(len, channel_count) == len % channel_count # 0

frames_remaining_rounded_up(length, position, bytes_per_frame) ==
    Wrap64(length - position + bytes_per_frame - 1) \div bytes_per_frame

\* (self.length - position) / bytes_per_frame, in u64
frames_remaining(length, position, bytes_per_frame) ==
    Wrap64(length - position) \div bytes_per_frame

\* AudioFrameReader::read_frames(buffer) with a buffer of type S.
\* Positions and lengths are u64, of the width U64Mod stands for.  The
\* differences stream_position - self.start and self.length - position
\* panic in a debug build when they are negative and wrap in a release
\* build.
read_frames(r, buffer, S, bld, mode) ==
    LET channel_count == r.format.channel_count
        bits_per_sample == r.format.bits_per_sample
        position == Wrap64(r.pos - r.start)
        frames_requested == Len(buffer) \div channel_count
        bytes_per_frame == r.format.block_alignment
        underflow == r.pos < r.start \/ position > r.length
        frames_to_read ==
            Min2(frames_requested, frames_remaining(r.length, position, bytes_per_frame))
        samples_to_read == frames_to_read * channel_count
        width == bits_per_sample \div 8
        available == Max2(0, (Len(r.inner) - r.pos) \div width)
        got == Min2(samples_to_read, available)
        sample(i) == to_sample(read_sample(SubSeq(r.inner, r.pos + (i - 1) * width + 1,
                                                  r.pos + i * width), bits_per_sample),
                               FileType(bits_per_sample), S)
        filled == [i \in 1..Len(buffer) |-> IF i <= got THEN sample(i) ELSE buffer[i]]
        result(kind, value, error, buf, p) ==
            [kind |-> kind, value |-> value, error |-> error, buffer |-> buf, pos |-> p]
    IN  IF invalid_buffer_size(Len(buffer), channel_count)
        THEN result("err", 0, InvalidBufferSize(Len(buffer), channel_count), buffer, r.pos)
        ELSE IF underflow /\ bld = "debug"
        THEN result("panic", 0, "", buffer, r.pos)
        ELSE IF got < samples_to_read
        THEN result("err", 0, "IOError", filled,
                    FailPos(r.inner, r.pos + got * width, mode))
        ELSE result("ok", frames_to_read, "", filled, r.pos + samples_to_read * width)

\* what locate returns and where it leaves the stream
Located(kind, value, p) == [kind |-> kind, value |-> value, pos |-> p]

\* a locate that counts the frames from the start of the stream
locate_from_stream_start(r, to, bld) ==
    Located("ok", to, Wrap64(to * r.format.block_alignment))

\* AudioFrameReader::locate(to).  to * block_alignment, self.start +
\* position and seek_result - self.start are u64 arithmetic: out of range
\* they panic in a debug build and wrap in a release build.
locate(r, to, bld) ==
    LET position == to * r.format.block_alignment
        target == r.start + Wrap64(position)
        seek_result == Wrap64(target)
        overflow == position >= U64Mod \/ target >= U64Mod \/ seek_result < r.start
    IN  IF overflow /\ bld = "debug" THEN Located("panic", 0, r.pos)
        ELSE Located("ok", Wrap64(seek_result - r.start) \div r.format.block_alignment,
                     seek_result)

\* the position of the cursor when no whole frame is left in the chunk
EndOfFrames(r) == r.start + (r.length \div r.format.block_alignment) * r.format.block_alignment

FrameInit ==
    /\ build \in {"debug", "release"}
    /\ eofMode \in {"stay", "end"}
    /\ ParserIdle
    /\ CodecIdle
    /\ WriterIdle
    /\ RawIdle
    /\ FmtIdle
    /\ OpenedIdle
    /\ BextIdle
    /\ written = <<>>
    /\ exhausted = FALSE
    /\ \E format \in Formats :
          \/ /\ phase = "writing"
             /\ writer = [format |-> format, bytes |-> <<>>, length |-> 0]
             /\ reader = NoReader
             /\ call = NoCall
          \/ \E d \in DataChunks(format) :
                /\ phase = "reading"
                /\ writer = NoWriter
                /\ reader = AudioFrameReader_new(Pattern(PrefixLen + d.length + d.trail),
                                                 format, PrefixLen, d.length)
                /\ call = Call("open", 0, "", 0, 0, "none", "ok", 0, "", <<>>)

\* the lengths of the buffers a caller reads into: one frame, MaxFrames
\* frames, and a length that is no whole number of frames
BufferLengths(format) ==
    {format.channel_count, MaxFrames * format.channel_count,
     2 * format.channel_count - 1}

\* the types of the buffers a caller reads into: the type of the file's
\* samples and a type of another width
BufferTypes(format) ==
    {FileType(format.bits_per_sample),
     IF format.bits_per_sample = 32 THEN "i16" ELSE "i32"}

ReadFrames ==
    /\ phase = "reading"
    /\ \E n \in BufferLengths(reader.format), S \in BufferTypes(reader.format) :
          LET r == read_frames(reader, create_frame_buffer(S, n), S, build, eofMode)
          IN  /\ call' = Call("read", n, S, IF call.op = "locate" THEN call.to ELSE 0,
                              reader.pos, call.op, r.kind, r.value, r.error, r.buffer)
              /\ reader' = [reader EXCEPT !.pos = r.pos]
              /\ phase' = IF r.kind = "panic" THEN "panicked" ELSE phase
              /\ exhausted' = (exhausted \/ (r.kind = "ok" /\ r.pos = EndOfFrames(reader)))
    /\ UNCHANGED <<pvars, cvars, wvars, rvars, dvars, ovars, bvars, writer, written>>

\* the frame numbers a caller locates: the frames of the chunk, the one
\* behind the last, and the greatest u64
FrameNumbers == 0..(MaxFrames + 1) \cup {U64Mod - 1}

Locate ==
    /\ phase = "reading"
    /\ \E to \in FrameNumbers :
          LET r == locate(reader, to, build)
          IN  /\ call' = Call("locate", 0, "", to, 0, "none", r.kind, r.value, "", <<>>)
              /\ reader' = [reader EXCEPT !.pos = r.pos]
              /\ phase' = IF r.kind = "panic" THEN "panicked" ELSE phase
    /\ UNCHANGED <<pvars, cvars, wvars, rvars, dvars, ovars, bvars, writer, written, exhausted>>

FrameNext ==
    \/ WriteIntegerFrames
    \/ End
    \/ Open
    \/ ReadFrames
    \/ Locate

FrameSpec == FrameInit /\ [][FrameNext]_vars

-----------------------------------------------------------------------------
(* C5 *)

\* a read_frames call on the chunk the writer left, with a buffer of whole
\* frames of the given type, starting on a frame inside the chunk
ReadOfWritten(S) ==
    /\ writer # NoWriter
    /\ call.op = "read"
    /\ call.type = S
    /\ call.n % reader.format.channel_count = 0
    /\ (call.from - reader.start) % reader.format.block_alignment = 0
    /\ call.from >= reader.start
    /\ call.from - reader.start <= reader.length

\* the call returned the frames from its starting frame on, as many as the
\* buffer holds or as are left of the N written, each sample as stored(v)
DeliversWritten(stored(_)) ==
    LET channel_count == reader.format.channel_count
        q == (call.from - reader.start) \div reader.format.block_alignment
        N == Len(written) \div channel_count
    IN  /\ call.kind = "ok"
        /\ call.value = Min2(call.n \div channel_count, N - q)
        /\ \A i \in 1..(call.value * channel_count) :
              call.buffer[i] = stored(written[q * channel_count + i])

Same(v) == v

Biased(v) == v + 128

-----------------------------------------------------------------------------
(* C6 *)

\* C6: at 8 bits write_integer_frame writes v + 128 for every v in
\* -128..127, without overflow or failure; unpack_frames yields b - 128 for
\* every byte b; unpacking what was packed yields v.
C6_EightBitBias ==
    codec.bits = 8 =>
        /\ codec.stage # "panicked"
        /\ (codec.frame # <<>> /\ codec.stage \in {"written", "unpacked"}) =>
              codec.bytes = [i \in 1..Len(codec.frame) |-> codec.frame[i] + 128]
        /\ codec.stage = "unpacked" =>
              codec.out = [i \in 1..Len(codec.bytes) |-> codec.bytes[i] - 128]
        /\ (codec.frame # <<>> /\ codec.stage = "unpacked") => codec.out = codec.frame

-----------------------------------------------------------------------------
(* C7 *)

-----------------------------------------------------------------------------
(* C8 *)

\* a read_frames call with a buffer of whole frames
ReadOfFrames == call.op = "read" /\ call.n % reader.format.channel_count = 0

-----------------------------------------------------------------------------
(* C9 *)

\* the byte offset of frame n is a u64
OffsetFits(n) == reader.start + n * reader.format.block_alignment < U64Mod

\* C9: locate(n) with n greater than the number of frames (and a byte offset
\* that is a u64) succeeds, and the read_frames after it returns 0 frames
\* with no error and reads no byte behind the data chunk.
C9_ReadAfterLocateBeyondEnd ==
    /\ (call.op = "locate" /\ OffsetFits(call.to)
          /\ call.to > reader.length \div reader.format.block_alignment) =>
          call.kind = "ok" /\ call.value = call.to
    /\ (ReadOfFrames /\ call.after = "locate" /\ OffsetFits(call.to)
          /\ call.to > reader.length \div reader.format.block_alignment) =>
          /\ call.kind = "ok"
          /\ call.value = 0
          /\ reader.pos = call.from

-----------------------------------------------------------------------------
(* C10 *)

\* sample i of the chunk, from its first byte on, in the type S
SampleOfChunk(i, S) ==
    LET bits == reader.format.bits_per_sample
        width == bits \div 8
        bytes == SubSeq(reader.inner, reader.start + (i - 1) * width + 1,
                        reader.start + i * width)
    IN  to_sample(IF bits = 8 THEN bytes[1] ELSE SignedLE(bytes), FileType(bits), S)

\* C10: once the cursor has consumed every whole frame of the chunk, each
\* further read_frames returns 0 with no error and leaves the cursor where
\* it is; after locate(0) read_frames returns the first frames of the chunk
\* again, the same a read right after opening returns.
C10_ExhaustedThenRewind ==
    /\ (ReadOfFrames /\ call.from = EndOfFrames(reader)) =>
          /\ call.kind = "ok"
          /\ call.value = 0
          /\ reader.pos = call.from
          /\ call.buffer = create_frame_buffer(call.type, call.n)
    /\ (ReadOfFrames /\ (call.after = "open"
                          \/ (exhausted /\ call.after = "locate" /\ call.to = 0))) =>
          /\ call.from = reader.start
          /\ call.kind = "ok"
          /\ call.value = Min2(call.n \div reader.format.channel_count,
                                reader.length \div reader.format.block_alignment)
          /\ \A i \in 1..(call.value * reader.format.channel_count) :
                call.buffer[i] = SampleOfChunk(i, call.type)

\* a read of one frame after the chunk was read to its end and the cursor
\* was set back
C10_Witness ==
    /\ ReadOfFrames
    /\ exhausted
    /\ call.after = "locate"
    /\ call.to = 0
    /\ call.value = 1
    /\ reader.length \div reader.format.block_alignment = MaxFrames
    /\ reader.pos # EndOfFrames(reader)

-----------------------------------------------------------------------------
(* C11 *)

\* C11: read_frames with a buffer whose length is no multiple of
\* channel_count returns Err(InvalidBufferSize) with the length of the buffer
\* and the channel count, and reads nothing: the position of the stream and
\* every element of the buffer are as before the call.
C11_InvalidBufferSize ==
    (call.op = "read" /\ call.n % reader.format.channel_count # 0) =>
        /\ call.kind = "err"
        /\ call.error = InvalidBufferSize(call.n, reader.format.channel_count)
        /\ reader.pos = call.from
        /\ call.buffer = create_frame_buffer(call.type, call.n)

\* the buffer held one sample more than a frame, with whole frames left
C11_Witness ==
    /\ call.op = "read"
    /\ call.kind = "err"
    /\ call.n = 3
    /\ reader.format.channel_count = 2
    /\ reader.pos = reader.start
    /\ reader.length = MaxFrames * reader.format.block_alignment

-----------------------------------------------------------------------------
(* C12 *)

\* the number of whole frames of the chunk
FrameCount == reader.length \div reader.format.block_alignment

\* C12: for every frame number n, locate(n) returns n and puts the stream
\* n * block_alignment bytes behind the start of the chunk, wherever it was;
\* for a frame n of the chunk the read_frames of one frame after it returns 1
\* and the channel_count samples of frame n.
C12_LocateThenRead ==
    /\ call.op = "locate" =>
          /\ call.kind = "ok"
          /\ call.value = call.to
          /\ reader.pos = reader.start + call.to * reader.format.block_alignment
    /\ (ReadOfFrames /\ call.after = "locate" /\ call.to < FrameCount
          /\ call.n = reader.format.channel_count) =>
          /\ call.kind = "ok"
          /\ call.value = 1
          /\ \A i \in 1..reader.format.channel_count :
                call.buffer[i] =
                    SampleOfChunk(call.to * reader.format.channel_count + i, call.type)

-----------------------------------------------------------------------------
(* wavewriter.rs: WaveWriter, WaveChunkWriter *)

\* The writer works on streams of the parser's bytes: a u32 field is four
\* bytes of ByteBits bits and u32::MAX is U32Mod - 1.  Every sequence of
\* writes of the source starts with a seek, so the position of the stream
\* between two calls is not part of the state.

\* the chunks a client appends to a file, the writes of frames it makes
MaxAppends == 1
MaxWrites == 3

ELM1_SIG == <<0, 1, 2, 1>>
BEXT_SIG == <<2, 0, 1, 3>>
IXML_SIG == <<1, 2, 3, 0>>
AXML_SIG == <<0, 2, 3, 0>>

U32Max == U32Mod - 1

DS64_RESERVATION_LENGTH == 96

\* let framing = 0x4000, in the scale of the model's u32
framing == ByteMod ^ 3

\* Cursor<Vec<u8>>: seek(Start(p)) and write; the vector grows when the
\* write goes behind its end
WriteAt(s, p, bytes) ==
    SubSeq(s \o Zeros(Max2(p - Len(s), 0)), 1, p) \o bytes
        \o SubSeq(s, p + Len(bytes) + 1, Len(s))

\* seek(End(0)) and write
AtEnd(s, bytes) == WriteAt(s, Len(s), bytes)

\* a panic unwinds the caller: the calls after it do not happen
Panicked(w) == [w EXCEPT !.kind = "panic"]

\* a promotion that leaves the header as it is
promote_to_rf64_never(w) == w

\* WaveWriter::promote_to_rf64
promote_to_rf64(w) ==
    IF ~w.is_rf64
    THEN [w EXCEPT !.inner = WriteAt(WriteAt(WriteAt(WriteAt(@,
                                 0, RF64_SIG),
                                 4, LEBytes(U32Max, 4)),
                                 12, DS64_SIG),
                                 12 + 4 + 4, LEBytes(w.form_length, 8)),
                   !.is_rf64 = TRUE,
                   !.rewrites = @ + 1]
    ELSE w

\* an increment_form_length that keeps the counter and leaves the 32-bit
\* field of a RIFF file as it is
increment_form_length_counter_only(w, amount, bld) ==
    LET v == [w EXCEPT !.form_length = Wrap64(w.form_length + amount)]
    IN  IF w.kind # "ok" THEN w
        ELSE IF v.is_rf64
        THEN [v EXCEPT !.inner = WriteAt(@, 8 + 4 + 8, LEBytes(v.form_length, 8))]
        ELSE IF v.form_length < U32Max THEN v
        ELSE promote_to_rf64(v)

\* an increment_form_length that keeps writing the 32-bit field after the
\* promotion
increment_form_length_both_fields(w, amount, bld) ==
    LET v == [w EXCEPT !.form_length = Wrap64(w.form_length + amount)]
    IN  IF w.kind # "ok" THEN w
        ELSE IF v.is_rf64
        THEN [v EXCEPT !.inner = WriteAt(WriteAt(@, 8 + 4 + 8, LEBytes(v.form_length, 8)),
                                         4, LEBytes(v.form_length % U32Mod, 4))]
        ELSE IF v.form_length < U32Max
        THEN [v EXCEPT !.inner = WriteAt(@, 4, LEBytes(v.form_length, 4))]
        ELSE promote_to_rf64(v)

\* WaveWriter::increment_form_length
increment_form_length(w, amount, bld) ==
    LET sum == w.form_length + amount
        v == [w EXCEPT !.form_length = Wrap64(sum)]
    IN  IF w.kind # "ok" THEN w
        ELSE IF sum >= U64Mod /\ bld = "debug" THEN Panicked(w)
        ELSE IF v.is_rf64
        THEN [v EXCEPT !.inner = WriteAt(@, 8 + 4 + 8, LEBytes(v.form_length, 8))]
        ELSE IF v.form_length < U32Max
        THEN [v EXCEPT !.inner = WriteAt(@, 4, LEBytes(v.form_length, 4))]
        ELSE promote_to_rf64(v)

\* WaveWriter::write_chunk
write_chunk(w, ident, data, bld) ==
    LET header == AtEnd(w.inner, ident \o LEBytes(Len(data), 4))
    IN  IF w.kind # "ok" THEN w
        ELSE IF ~(Len(data) < U32Max)
        THEN Panicked([w EXCEPT !.inner = AtEnd(@, ident)])
        ELSE IF Len(data) % 2 = 0
        THEN increment_form_length([w EXCEPT !.inner = AtEnd(header, data)],
                                   8 + Len(data), bld)
        ELSE increment_form_length([w EXCEPT !.inner = AtEnd(AtEnd(header, data), <<0>>)],
                                   8 + Len(data) + 1, bld)

\* WaveWriter::write_junk
write_junk(w, length, bld) == write_chunk(w, JUNK_SIG, Zeros(length), bld)

\* WaveChunkWriter::begin, called by WaveWriter::chunk after seek(End(0))
chunk(w, ident, bld) ==
    LET v == increment_form_length([w EXCEPT !.inner = AtEnd(@, ident \o LEBytes(0, 4))],
                                   8, bld)
    IN  IF w.kind # "ok" THEN w
        ELSE IF v.kind # "ok" THEN v
        ELSE [v EXCEPT !.ident = ident,
                       !.content_start_pos = Len(v.inner),
                       !.length = 0]

\* an increment_chunk_length that writes the length the same way before and
\* after the promotion
increment_chunk_length_32(c, amount, bld) ==
    LET sum == c.length + amount
    IN  IF c.kind # "ok" THEN c
        ELSE [c EXCEPT !.length = sum,
                       !.inner = WriteAt(@, c.content_start_pos - 4,
                                         LEBytes(sum % U32Mod, 4))]

\* WaveChunkWriter::increment_chunk_length
increment_chunk_length(c, amount, bld) ==
    LET sum == c.length + amount
        v == [c EXCEPT !.length = Wrap64(sum)]
        data_chunk_64bit_field_offset == 8 + 4 + 8 + 8
    IN  IF c.kind # "ok" THEN c
        ELSE IF sum >= U64Mod /\ bld = "debug" THEN Panicked(c)
        ELSE IF ~v.is_rf64
        THEN [v EXCEPT !.inner = WriteAt(@, v.content_start_pos - 4,
                                         LEBytes(v.length % U32Mod, 4))]
        ELSE IF v.ident = DATA_SIG
        THEN [v EXCEPT !.inner = WriteAt(WriteAt(@,
                                     v.content_start_pos - 4, LEBytes(U32Max, 4)),
                                     data_chunk_64bit_field_offset, LEBytes(v.length, 8))]
        ELSE Panicked(v)

\* <WaveChunkWriter as Write>::write
WaveChunkWriter_write(c, buffer, bld) ==
    IF c.kind # "ok" THEN c
    ELSE increment_chunk_length(
             increment_form_length([c EXCEPT !.inner = AtEnd(@, buffer)],
                                   Len(buffer), bld),
             Len(buffer), bld)

\* a sequence of writes, as write_u16 and write_u32 make them
RECURSIVE WriteEach(_, _, _)
WriteEach(c, buffers, bld) ==
    IF buffers = <<>> THEN c
    ELSE WriteEach(WaveChunkWriter_write(c, Head(buffers), bld), Tail(buffers), bld)

\* an end that leaves an odd chunk without its pad byte
WaveChunkWriter_end_unpadded(c, bld) ==
    [c EXCEPT !.ident = <<>>, !.content_start_pos = 0, !.length = 0]

\* WaveChunkWriter::end: the WaveWriter is given back
WaveChunkWriter_end(c, bld) ==
    LET v == IF c.length % 2 = 1
             THEN increment_form_length([c EXCEPT !.inner = AtEnd(@, <<0>>)], 1, bld)
             ELSE c
    IN  IF c.kind # "ok" \/ v.kind # "ok" THEN v
        ELSE [v EXCEPT !.ident = <<>>, !.content_start_pos = 0, !.length = 0]

\* WriteBWaveChunks::write_wave_fmt: tag 1, 48000 samples per second
write_wave_fmt(c, format, bld) ==
    WriteEach(c, <<LEBytes(1, 2),
                   LEBytes(format.channel_count, 2),
                   LEBytes(48000, 4),
                   LEBytes(48000 * format.block_alignment, 4),
                   LEBytes(format.block_alignment, 2),
                   LEBytes(format.bits_per_sample, 2)>>, bld)

\* a new that reserves no room for ds64
WaveWriter_new_unreserved(format, bld) ==
    LET retval == increment_form_length(
                      [NoFile EXCEPT !.inner = RIFF_SIG \o LEBytes(0, 4) \o WAVE_SIG,
                                     !.format = format], 4, bld)
    IN  WaveChunkWriter_end(write_wave_fmt(chunk(retval, FMT__SIG, bld), format, bld), bld)

\* WaveWriter::new
WaveWriter_new(format, bld) ==
    LET retval == increment_form_length(
                      [NoFile EXCEPT !.inner = RIFF_SIG \o LEBytes(0, 4) \o WAVE_SIG,
                                     !.format = format], 4, bld)
        reserved == write_junk(retval, DS64_RESERVATION_LENGTH, bld)
    IN  WaveChunkWriter_end(write_wave_fmt(chunk(reserved, FMT__SIG, bld), format, bld), bld)

\* WaveWriter::audio_frame_writer.  to_add is a u64: the subtraction
\* panics in a build with overflow checks; without them vec![0u8; to_add]
\* asks for more than isize::MAX bytes and panics
audio_frame_writer(w, bld) ==
    LET lip == Len(w.inner)
        to_add == framing - (lip % framing) - 16
        elm1 == chunk(w, ELM1_SIG, bld)
        closed == WaveChunkWriter_end(WaveChunkWriter_write(elm1, Zeros(to_add), bld), bld)
    IN  IF w.kind # "ok" THEN w
        ELSE IF to_add < 0 /\ bld = "debug" THEN Panicked(w)
        ELSE IF Wrap64(to_add) > U64Mod \div 2 - 1 THEN Panicked(w)
        ELSE chunk(closed, DATA_SIG, bld)

\* AudioFrameWriter::write_integer_frames of a buffer of `frames` frames: the
\* packed bytes (here bytes that are not 0) go to the WaveChunkWriter
AudioBytes(from, n) == [i \in 1..n |-> 1 + ((from + i) % (ByteMod - 1))]

write_integer_frames(c, frames, bld) ==
    WaveChunkWriter_write(c, AudioBytes(c.length, c.format.block_alignment * frames), bld)

-----------------------------------------------------------------------------
(* The calls of a client of WaveWriter *)

\* a chunk a call appended: its signature, the offset of its header, the
\* content bytes written to it
Appended(sig, header, content) == [sig |-> sig, at |-> header, written |-> content]

WriterFormats == {WaveFmt(8, 1), WaveFmt(24, 1)}

\* the lengths of metadata chunks: empty, odd, one that leaves less than 16
\* bytes before the next multiple of framing, one that takes the form
\* length of a new file to u32::MAX
ChunkLengths == {0, 1, framing \div 2 - 2, U32Mod \div 2 - 12}

\* the lengths of iXML and axml documents: odd, and one that takes the
\* form length of a new file to u32::MAX
XmlLengths == {1, U32Mod \div 2 - 12}

\* the frames of one write_integer_frames: one, and two counts that take
\* the form length of a file of one-byte frames to u32::MAX - 1 and to
\* u32::MAX in two writes and a third
FrameCounts ==
    LET room == U32Max - (3 * framing - 8)
    IN  {1, room \div 2, room \div 2 + 1}

\* content that is not 0
Filler(n) == [i \in 1..n |-> 1 + (i % (ByteMod - 1))]

WriterInit ==
    /\ build \in {"debug", "release"}
    /\ eofMode = "stay"
    /\ ParserIdle
    /\ FrameIdle
    /\ CodecIdle
    /\ RawIdle
    /\ FmtIdle
    /\ OpenedIdle
    /\ BextIdle
    /\ WriterIdle

\* the state after a call that returned w
Returned(op, w, stage, chunks, audio, writes, appends) ==
    /\ wave' = [w EXCEPT !.stage = IF w.kind = "ok" THEN stage ELSE "panicked"]
    /\ done' = [op |-> op,
                chunks |-> IF w.kind = "ok" THEN chunks ELSE done.chunks,
                audio |-> audio, writes |-> writes, appends |-> appends]
    /\ UNCHANGED <<pvars, fvars, cvars, rvars, dvars, ovars, bvars>>

New ==
    /\ wave.stage = "none"
    /\ \E format \in WriterFormats :
          LET w == WaveWriter_new(format, build)
          IN  Returned("new", w, "writer",
                       <<Appended(JUNK_SIG, 12, DS64_RESERVATION_LENGTH),
                         Appended(FMT__SIG, 12 + 8 + DS64_RESERVATION_LENGTH,
                                  Len(w.inner) - (12 + 8 + DS64_RESERVATION_LENGTH + 8))>>,
                       0, 0, 0)

\* a call that appends one chunk with write_chunk
WriteChunk(op, ident, data) ==
    /\ wave.stage = "writer"
    /\ done.appends < MaxAppends
    /\ Returned(op, write_chunk(wave, ident, data, build), "writer",
                Append(done.chunks, Appended(ident, Len(wave.inner), Len(data))),
                done.audio, done.writes, done.appends + 1)

WriteJunk == \E length \in ChunkLengths : WriteChunk("write_junk", JUNK_SIG, Zeros(length))

\* write_broadcast_metadata: buf is what write_bext wrote, 602 bytes for a
\* Bext with no coding history, in the scale of the model
WriteBroadcastMetadata ==
    WriteChunk("write_broadcast_metadata", BEXT_SIG, Filler(602 % framing))

WriteIxml == \E n \in XmlLengths : WriteChunk("write_ixml", IXML_SIG, Filler(n))

WriteAxml == \E n \in XmlLengths : WriteChunk("write_axml", AXML_SIG, Filler(n))

AudioFrameWriter ==
    /\ wave.stage = "writer"
    /\ done.audio = 0
    /\ LET c == audio_frame_writer(wave, build)
       IN  Returned("audio_frame_writer", c, "frames",
                    done.chunks \o <<Appended(ELM1_SIG, Len(wave.inner),
                                              c.content_start_pos - 8 - (Len(wave.inner) + 8)),
                                     Appended(DATA_SIG, c.content_start_pos - 8, 0)>>,
                    done.audio, 0, done.appends)

WriteFrames ==
    /\ wave.stage = "frames"
    /\ done.writes < MaxWrites
    /\ \E frames \in FrameCounts :
          LET c == write_integer_frames(wave, frames, build)
          IN  Returned("write_integer_frames", c, "frames",
                       [done.chunks EXCEPT ![Len(done.chunks)].written = c.length],
                       done.audio, done.writes + 1, done.appends)

EndFrames ==
    /\ wave.stage = "frames"
    /\ Returned("end", WaveChunkWriter_end(wave, build), "writer", done.chunks, 1,
                done.writes, done.appends)

WriterNext ==
    \/ New
    \/ WriteJunk
    \/ WriteBroadcastMetadata
    \/ WriteIxml
    \/ WriteAxml
    \/ AudioFrameWriter
    \/ WriteFrames
    \/ EndFrames

WriterSpec == WriterInit /\ [][WriterNext]_vars

-----------------------------------------------------------------------------
(* The form size *)

\* a call on the writer has returned and the writer can be called again
Completed == wave.stage \in {"writer", "frames"}

\* the form size the file declares
FormSize ==
    IF read_fourcc(wave.inner, 0) = RF64_SIG
    THEN read_uint(wave.inner, 8 + 4 + 8, 8)
    ELSE read_uint(wave.inner, 4, 4)

\* the i-th chunk of the file is the chunk a WaveChunkWriter still writes
StillOpen(i) == wave.stage = "frames" /\ i = Len(done.chunks)

\* the length the i-th chunk declares: its 32-bit field, or for the marker
\* the data size of ds64
Declared(i) ==
    LET field == read_uint(wave.inner, done.chunks[i].at + 4, 4)
    IN  IF field = U32Max /\ read_fourcc(wave.inner, 12) = DS64_SIG
        THEN read_uint(wave.inner, 8 + 4 + 8 + 8, 8)
        ELSE field

ChunksSize(pad(_)) ==
    SumSeq([i \in 1..Len(done.chunks) |-> 8 + Declared(i) + pad(i)])

PadIfOdd(i) == Declared(i) % 2

PadIfOddAndClosed(i) == IF StillOpen(i) THEN 0 ELSE Declared(i) % 2

\* C13 (as stated): after every completed operation of the writer the form
\* size the file declares (the 32-bit field of a RIFF file, the 64-bit
\* field of ds64 after the promotion) is the stream length minus 8, and is
\* 4 plus, for every chunk, 8 + its declared length + a pad byte if that
\* length is odd.
C13_FormSize ==
    Completed =>
        /\ FormSize = Len(wave.inner) - 8
        /\ FormSize = 4 + ChunksSize(PadIfOdd)

\* C13 (amended): the same, with the pad byte counted for the chunks that
\* are closed: the data chunk gets its pad byte when end() closes it.
C13_FormSizeOfClosedChunks ==
    Completed =>
        /\ FormSize = Len(wave.inner) - 8
        /\ FormSize = 4 + ChunksSize(PadIfOddAndClosed)

\* an odd number of bytes is in the open data chunk of a promoted file
C13_Witness ==
    /\ wave.stage = "frames"
    /\ wave.is_rf64
    /\ done.op = "write_integer_frames"
    /\ wave.length % 2 = 1

-----------------------------------------------------------------------------
(* The alignment of the audio data *)

\* the chunks the calls appended that have the signature sig
ChunksOf(sig) == {i \in 1..Len(done.chunks) : done.chunks[i].sig = sig}

\* C14: whatever chunks were appended before it, audio_frame_writer()
\* succeeds, the content of the data chunk starts at a multiple of framing,
\* and one elm1 chunk, the only one, ends where the header of the data
\* chunk starts.
C14_DataAligned ==
    done.op = "audio_frame_writer" =>
        /\ wave.kind = "ok"
        /\ wave.ident = DATA_SIG
        /\ wave.content_start_pos % framing = 0
        /\ read_fourcc(wave.inner, wave.content_start_pos - 8) = DATA_SIG
        /\ Cardinality(ChunksOf(ELM1_SIG)) = 1
        /\ \A i \in ChunksOf(ELM1_SIG) :
              /\ i + 1 = Len(done.chunks)
              /\ read_fourcc(wave.inner, done.chunks[i].at) = ELM1_SIG
              /\ done.chunks[i].at + 8 + Padded(Declared(i)) = wave.content_start_pos - 8

-----------------------------------------------------------------------------
(* The promotion to RF64 *)

Signature == read_fourcc(wave.inner, 0)

FirstChunk == read_fourcc(wave.inner, 12)

\* C15: while the form length is below u32::MAX the file is RIFF, its first
\* chunk JUNK and is_rf64 false; once a write has taken the form length to
\* u32::MAX or above the signature is RF64, the 32-bit form size u32::MAX
\* and the first chunk ds64.
C15_PromotionThreshold ==
    wave.stage # "none" =>
        IF wave.form_length < U32Max
        THEN /\ Signature = RIFF_SIG
             /\ FirstChunk = JUNK_SIG
             /\ ~wave.is_rf64
        ELSE /\ Signature = RF64_SIG
             /\ read_uint(wave.inner, 4, 4) = U32Max
             /\ FirstChunk = DS64_SIG
             /\ wave.is_rf64

\* a write of frames has taken the form length to u32::MAX, not above
C15_Witness ==
    /\ done.op = "write_integer_frames"
    /\ wave.kind = "ok"
    /\ wave.form_length = U32Max
    /\ Signature = RF64_SIG

\* the form signature and the 32-bit form size, the signature of the first
\* chunk
Header(w) == <<SubSeq(w.inner, 1, 8), SubSeq(w.inner, 13, 16)>>

Rf64Header == <<RF64_SIG \o LEBytes(U32Max, 4), DS64_SIG>>

\* C16: is_rf64 changes only from false to true; the step that sets it
\* rewrites the header (RF64, the marker, ds64 over JUNK), no other step
\* does, and the steps after it leave the form signature, the 32-bit form
\* size and the signature of ds64 as they are.
C16_PromotedOnce ==
    [][/\ wave.is_rf64 => wave'.is_rf64
       /\ (~wave.is_rf64 /\ wave'.is_rf64) =>
             /\ Header(wave') = Rf64Header
             /\ wave'.rewrites = wave.rewrites + 1
       /\ (wave.is_rf64 \/ ~wave'.is_rf64) => wave'.rewrites = wave.rewrites
       /\ wave.is_rf64 => Header(wave') = Header(wave)
       /\ wave'.rewrites <= 1]_vars

\* end() appended the pad byte of the data chunk of a promoted file
C16_Witness ==
    /\ done.op = "end"
    /\ wave.kind = "ok"
    /\ wave.is_rf64
    /\ wave.rewrites = 1
    /\ done.chunks[Len(done.chunks)].written % 2 = 1

\* C17: in a promoted file, after every completed operation, the data size
\* of ds64 is the number of bytes written to the data chunk and the 32-bit
\* length of the data chunk is the marker u32::MAX.
C17_DataSizeInDs64 ==
    (Completed /\ wave.is_rf64) =>
        \A i \in ChunksOf(DATA_SIG) :
            /\ read_uint(wave.inner, 8 + 4 + 8 + 8, 8) = done.chunks[i].written
            /\ read_uint(wave.inner, done.chunks[i].at + 4, 4) = U32Max

-----------------------------------------------------------------------------
(* The chunks of a file *)

\* C18: when WaveWriter::new has returned the stream is the RIFF/WAVE header,
\* a JUNK chunk of DS64_RESERVATION_LENGTH zero bytes and the fmt chunk, and
\* nothing else; the form size is 4 + 8 + 96 + 8 + the length of fmt.
C18_NewFile ==
    done.op = "new" =>
        LET junk == 12
            fmt == junk + 8 + DS64_RESERVATION_LENGTH
            fmt_size == read_uint(wave.inner, fmt + 4, 4)
        IN  /\ wave.kind = "ok"
            /\ read_fourcc(wave.inner, 0) = RIFF_SIG
            /\ read_fourcc(wave.inner, 8) = WAVE_SIG
            /\ read_fourcc(wave.inner, junk) = JUNK_SIG
            /\ read_uint(wave.inner, junk + 4, 4) = DS64_RESERVATION_LENGTH
            /\ SubSeq(wave.inner, junk + 8 + 1, fmt) = Zeros(DS64_RESERVATION_LENGTH)
            /\ read_fourcc(wave.inner, fmt) = FMT__SIG
            /\ fmt_size = 2 + 2 + 4 + 4 + 2 + 2
            /\ read_uint(wave.inner, fmt + 8 + 2, 2)
                  = wave.format.channel_count % (ByteMod ^ 2)
            /\ Len(wave.inner) = fmt + 8 + fmt_size
            /\ read_uint(wave.inner, 4, 4) = 4 + 8 + DS64_RESERVATION_LENGTH + 8 + fmt_size

\* WaveWriter::new has returned the writer of a 24-bit file
C18_Witness ==
    /\ done.op = "new"
    /\ wave.stage = "writer"
    /\ wave.format.bits_per_sample = 24
    /\ Len(done.chunks) = 2

\* the offset behind the content of the i-th chunk
ContentEnd(i) == done.chunks[i].at + 8 + done.chunks[i].written

\* the offset behind the i-th chunk: the header of the next, or the end
ChunkEnd(i) ==
    IF i < Len(done.chunks) THEN done.chunks[i + 1].at ELSE Len(wave.inner)

\* C19: of every chunk that is closed the 32-bit length is the number of
\* content bytes written to it (while the file is RIFF); one zero byte
\* follows the content if and only if that number is odd; the form length
\* counts the pad bytes; every chunk header is at an even offset.
C19_ClosedChunks ==
    Completed =>
        /\ \A i \in 1..Len(done.chunks) :
              /\ done.chunks[i].at % 2 = 0
              /\ read_fourcc(wave.inner, done.chunks[i].at)
                    = IF i = 1 /\ wave.is_rf64 THEN DS64_SIG ELSE done.chunks[i].sig
              /\ ~StillOpen(i) =>
                    /\ ~wave.is_rf64 =>
                          read_uint(wave.inner, done.chunks[i].at + 4, 4)
                              = done.chunks[i].written
                    /\ IF done.chunks[i].written % 2 = 1
                       THEN /\ ChunkEnd(i) = ContentEnd(i) + 1
                            /\ wave.inner[ContentEnd(i) + 1] = 0
                       ELSE ChunkEnd(i) = ContentEnd(i)
        /\ wave.form_length
              = 4 + SumSeq([i \in 1..Len(done.chunks) |->
                              8 + done.chunks[i].written
                                + (IF StillOpen(i) THEN 0 ELSE done.chunks[i].written % 2)])

\* a chunk was appended behind a closed data chunk of odd length
C19_Witness ==
    /\ wave.stage = "writer"
    /\ ~wave.is_rf64
    /\ done.audio = 1
    /\ \E i \in ChunksOf(DATA_SIG) :
          /\ done.chunks[i].written % 2 = 1
          /\ i < Len(done.chunks)
          /\ done.chunks[i + 1].written % 2 = 1

-----------------------------------------------------------------------------
(* raw_chunk_reader.rs: RawChunkReader *)

MaxWindow == 3

\* RawChunkReader::new
RawChunkReader_new(start, length) ==
    [NoRaw EXCEPT !.start = start, !.length = length, !.position = 0, !.op = "new"]

\* the result of a call: op, n: the method and its argument; from: the
\* position before the call; kind: "ok", "err" or "panic"; value: the
\* number of Ok; error: the ErrorKind of Err
RawResult(r, op, n, position, kind, value, error) ==
    [r EXCEPT !.position = position, !.op = op, !.n = n, !.from = r.position,
              !.kind = kind, !.value = value, !.error = error]

RawPanic(r, op, n) == RawResult(r, op, n, r.position, "panic", 0, "")

\* <RawChunkReader as Read>::read into a buffer of n bytes.  offset: where
\* the underlying reader was sent; what take(to_read).read(buf) returned is
\* dropped, the position moves by to_read
RawChunkReader_read(r, n, bld) ==
    LET to_read == Min2(r.length - r.position, n)
        target == r.start + r.position
    IN  IF r.position >= r.length
        THEN RawResult(r, "read", n, r.position, "err", 0, "UnexpectedEof")
        ELSE IF target >= U64Mod /\ bld = "debug" THEN RawPanic(r, "read", n)
        ELSE [RawResult(r, "read", n, r.position + to_read, "ok", to_read, "")
                EXCEPT !.offset = Wrap64(target)]

\* <RawChunkReader as Seek>::seek(Start(s))
seek_Start(r, s) == RawResult(r, "seek_start", s, s, "ok", s, "")

\* the arm for Current(s) and, with the length as base, for End(s):
\* s + base as i64, an i64 addition, then new_position as u64
seek_from(r, op, base, s, bld) ==
    LET sum == s + AsI64(base)
        overflow == sum >= U64Mod \div 2 \/ sum < 0 - U64Mod \div 2
        new_position == AsI64(Wrap64(sum))
    IN  IF overflow /\ bld = "debug" THEN RawPanic(r, op, s)
        ELSE IF new_position < 0
        THEN RawResult(r, op, s, r.position, "err", 0, "Other")
        ELSE RawResult(r, op, s, new_position, "ok", new_position, "")

seek_Current(r, s, bld) == seek_from(r, "seek_current", r.position, s, bld)

seek_End(r, s, bld) == seek_from(r, "seek_end", r.length, s, bld)

\* the positions the model follows: around the window, and around the
\* first position that is no i64
Followed(r) ==
    \/ r.position <= MaxWindow + 1
    \/ r.position >= U64Mod \div 2 - 2 /\ r.position <= U64Mod \div 2

RawInit ==
    /\ build \in {"debug", "release"}
    /\ eofMode = "stay"
    /\ ParserIdle
    /\ FrameIdle
    /\ CodecIdle
    /\ WriterIdle
    /\ FmtIdle
    /\ OpenedIdle
    /\ BextIdle
    /\ \E start \in 0..PrefixLen, length \in 0..MaxWindow :
          raw = RawChunkReader_new(start, length)

RawReturn(r) ==
    /\ raw.kind # "panic"
    /\ Followed(r)
    /\ raw' = r
    /\ UNCHANGED <<pvars, fvars, cvars, wvars, dvars, ovars, bvars>>

RawRead == \E n \in 0..MaxWindow : RawReturn(RawChunkReader_read(raw, n, build))

RawSeekStart ==
    \E s \in 0..(MaxWindow + 1) \cup {U64Mod \div 2} : RawReturn(seek_Start(raw, s))

RawSeekCurrent == \E s \in (0 - 2)..2 : RawReturn(seek_Current(raw, s, build))

RawSeekEnd == \E s \in (0 - MaxWindow - 1)..1 : RawReturn(seek_End(raw, s, build))

RawNext ==
    \/ RawRead
    \/ RawSeekStart
    \/ RawSeekCurrent
    \/ RawSeekEnd

RawSpec == RawInit /\ [][RawNext]_vars

\* C20: a read with the position at or behind the end of the window returns
\* Ok(0), no error.
C20_ReadAtEnd ==
    (raw.op = "read" /\ raw.from >= raw.length) =>
        /\ raw.kind = "ok"
        /\ raw.value = 0

\* the position a seek by d from base asks for
Target(base, d) == base + d

\* C21: seek(Start(s)) sets the position to s, seek(Current(d)) to the
\* position + d, seek(End(d)) to the length + d; a seek to a position
\* before 0 is an error and leaves the position where it was; a read
\* fetches from the offset start + position of the underlying stream and
\* returns at most length - position bytes.
C21_SeekInWindow ==
    /\ raw.op = "seek_start" =>
          raw.kind = "ok" /\ raw.value = raw.n /\ raw.position = raw.n
    /\ \A op \in {"seek_current", "seek_end"} :
          raw.op = op =>
              LET target == Target(IF op = "seek_end" THEN raw.length ELSE raw.from, raw.n)
              IN  IF target < 0
                  THEN raw.kind = "err" /\ raw.position = raw.from
                  ELSE raw.kind = "ok" /\ raw.value = target /\ raw.position = target
    /\ (raw.op = "read" /\ raw.from < raw.length) =>
          /\ raw.kind = "ok"
          /\ raw.offset = raw.start + raw.from
          /\ raw.value = Min2(raw.length - raw.from, raw.n)
          /\ raw.position = raw.from + raw.value

-----------------------------------------------------------------------------
(* fmt.rs: the constructors of WaveFmt and the channel descriptors;        *)
(* common_format.rs: CommonFormat                                          *)

MaxChannels == 4

WAVE_TAG_PCM == 1

WAVE_TAG_FLOAT == 3

WAVE_TAG_MPEG == 80

WAVE_TAG_EXTENDED == 65534

\* a Uuid is its 16 bytes
WAVE_UUID_PCM == <<1, 0, 0, 0, 0, 0, 16, 0, 128, 0, 0, 170, 0, 56, 155, 113>>

WAVE_UUID_FLOAT == <<3, 0, 0, 0, 0, 0, 16, 0, 128, 0, 0, 170, 0, 56, 155, 113>>

WAVE_UUID_MPEG == <<80, 0, 0, 0, 0, 0, 16, 0, 128, 0, 0, 170, 0, 56, 155, 113>>

WAVE_UUID_BFORMAT_PCM == <<1, 0, 0, 0, 33, 7, 211, 17, 134, 68, 200, 193, 202, 0, 0, 0>>

WAVE_UUID_BFORMAT_FLOAT == <<3, 0, 0, 0, 33, 7, 211, 17, 134, 68, 200, 193, 202, 0, 0, 0>>

\* a u32 bit mask is the set of the positions of its set bits: BitsOf(v)
\* for a literal v below 2^31, Shl for <<
BitsOf(v) == {i \in 0..30 : (v \div 2 ^ i) % 2 = 1}

Shl(mask, n) == {i + n : i \in mask} \cap 0..31

\* the cases of enum ChannelMask other than DirectOut, by bit position
ChannelMask ==
    <<"FrontLeft", "FrontRight", "FrontCenter", "LowFrequency", "BackLeft",
      "BackRight", "FrontCenterLeft", "FrontCenterRight", "BackCenter",
      "SideLeft", "SideRight", "TopCenter", "TopFrontLeft", "TopFrontCenter",
      "TopFrontRight", "TopBackLeft", "TopBackCenter", "TopBackRight">>

\* <ChannelMask as From<u32>>::from(1 << bit)
ChannelMask_from(bit) == IF bit \in 0..17 THEN ChannelMask[bit + 1] ELSE "DirectOut"

\* let reserved_mask = 0xfff2_0000_u32
reserved_mask == Shl(BitsOf(65522), 16)

\* ChannelMask::channels
ChannelMask_channels(input_mask, channel_count) ==
    IF input_mask \cap reserved_mask # {}
    THEN [i \in 1..channel_count |-> "DirectOut"]
    ELSE LET set == SelectSeq([i \in 1..18 |-> i - 1], LAMBDA b : b \in input_mask)
         IN  [i \in 1..Len(set) |-> ChannelMask_from(set[i])]

ChannelDescriptor(index, speaker) == [index |-> index, speaker |-> speaker]

\* WaveFmt::channels
WaveFmt_channels(f) ==
    CASE f.channel_count = 1 ->
           [kind |-> "ok", channels |-> <<ChannelDescriptor(0, "FrontCenter")>>]
      [] f.channel_count = 2 ->
           [kind |-> "ok",
            channels |-> <<ChannelDescriptor(0, "FrontLeft"),
                           ChannelDescriptor(1, "FrontRight")>>]
      [] f.channel_count > 2 ->
           LET channel_mask == IF f.extended_format.some
                               THEN f.extended_format.channel_mask ELSE {}
               channels == ChannelMask_channels(channel_mask, f.channel_count)
           IN  [kind |-> "ok",
                channels |->
                    [n \in 1..f.channel_count |->
                        ChannelDescriptor(n - 1, IF n <= Len(channels) THEN channels[n]
                                                 ELSE "DirectOut")]]
      [] OTHER -> [kind |-> "panic", channels |-> <<>>]

\* ReadBWaveChunks::read_wave_fmt of the fmt chunk that holds the fields
\* of f
read_wave_fmt(f) == [f EXCEPT !.extended_format = None]

\* WaveReader::channels, format being what self.format() returned
WaveReader_channels(format) ==
    LET n == format.channel_count
        channel_masks ==
            CASE n = 1 -> <<"FrontCenter">>
              [] n = 2 -> <<"FrontLeft", "FrontRight">>
              [] n \notin {1, 2} /\ format.extended_format.some ->
                   ChannelMask_channels(format.extended_format.channel_mask, n)
              [] OTHER -> [i \in 1..n |-> "DirectOut"]
    IN  [i \in 1..Min2(n, Len(channel_masks)) |-> ChannelDescriptor(i - 1, channel_masks[i])]

Some(valid_bits_per_sample, channel_mask, type_guid) ==
    [some |-> TRUE, valid_bits_per_sample |-> valid_bits_per_sample,
     channel_mask |-> channel_mask, type_guid |-> type_guid]

Descriptor(tag, channel_count, sample_rate, bytes_per_second, block_alignment,
           bits_per_sample, extended_format) ==
    [channel_count |-> channel_count, bits_per_sample |-> bits_per_sample,
     block_alignment |-> block_alignment, tag |-> tag, sample_rate |-> sample_rate,
     bytes_per_second |-> bytes_per_second, extended_format |-> extended_format]

\* WaveFmt::new_pcm_ambisonic
new_pcm_ambisonic(sample_rate, bits_per_sample, channel_count) ==
    LET container_bits_per_sample == bits_per_sample + (bits_per_sample % 8)
        container_bytes_per_sample == container_bits_per_sample \div 8
    IN  Descriptor(WAVE_TAG_EXTENDED, channel_count, sample_rate,
                   container_bytes_per_sample * sample_rate * channel_count,
                   container_bytes_per_sample * channel_count,
                   container_bits_per_sample,
                   Some(bits_per_sample, {}, WAVE_UUID_BFORMAT_PCM))

\* new_pcm_multichannel without its first match arm
new_pcm_multichannel_by_layout(sample_rate, bits_per_sample, channel_bitmap) ==
    LET container_bits_per_sample == bits_per_sample + (bits_per_sample % 8)
        container_bytes_per_sample == container_bits_per_sample \div 8
        channel_count == Cardinality({n \in 0..31 : n \in channel_bitmap})
        basic == channel_bitmap \in {BitsOf(4), BitsOf(3)}
    IN  Descriptor(IF basic THEN WAVE_TAG_PCM ELSE WAVE_TAG_EXTENDED,
                   channel_count, sample_rate,
                   container_bytes_per_sample * sample_rate * channel_count,
                   container_bytes_per_sample * channel_count,
                   container_bits_per_sample,
                   IF basic THEN None
                   ELSE Some(bits_per_sample, channel_bitmap, WAVE_UUID_PCM))

\* WaveFmt::new_pcm_multichannel
new_pcm_multichannel(sample_rate, bits_per_sample, channel_bitmap) ==
    LET container_bits_per_sample == bits_per_sample + (bits_per_sample % 8)
        container_bytes_per_sample == container_bits_per_sample \div 8
        channel_count == Cardinality({n \in 0..31 : n \in channel_bitmap})
        extended == Some(bits_per_sample, channel_bitmap, WAVE_UUID_PCM)
        result ==
            IF bits_per_sample # container_bits_per_sample
            THEN <<WAVE_TAG_EXTENDED, extended>>
            ELSE IF channel_bitmap = BitsOf(4) THEN <<WAVE_TAG_PCM, None>>
            ELSE IF channel_bitmap = BitsOf(3) THEN <<WAVE_TAG_PCM, None>>
            ELSE <<WAVE_TAG_EXTENDED, extended>>
    IN  Descriptor(result[1], channel_count, sample_rate,
                   container_bytes_per_sample * sample_rate * channel_count,
                   container_bytes_per_sample * channel_count,
                   container_bits_per_sample, result[2])

\* WaveFmt::new_pcm_mono
new_pcm_mono(sample_rate, bits_per_sample) ==
    new_pcm_multichannel(sample_rate, bits_per_sample, BitsOf(4))

\* WaveFmt::new_pcm_stereo
new_pcm_stereo(sample_rate, bits_per_sample) ==
    new_pcm_multichannel(sample_rate, bits_per_sample, BitsOf(3))

\* the variants of enum CommonFormat
IntegerPCM == [tag |-> 0, variant |-> "IntegerPCM", uuid |-> <<>>]

IeeeFloatPCM == [tag |-> 0, variant |-> "IeeeFloatPCM", uuid |-> <<>>]

Mpeg == [tag |-> 0, variant |-> "Mpeg", uuid |-> <<>>]

AmbisonicBFormatIntegerPCM ==
    [tag |-> 0, variant |-> "AmbisonicBFormatIntegerPCM", uuid |-> <<>>]

AmbisonicBFormatIeeeFloatPCM ==
    [tag |-> 0, variant |-> "AmbisonicBFormatIeeeFloatPCM", uuid |-> <<>>]

UnknownBasic(x) == [tag |-> x, variant |-> "UnknownBasic", uuid |-> <<>>]

UnknownExtended(x) == [tag |-> 0, variant |-> "UnknownExtended", uuid |-> x]

\* Option<Uuid>
NoUuid == [some |-> FALSE, uuid |-> <<>>]

SomeUuid(x) == [some |-> TRUE, uuid |-> x]

\* CommonFormat::make: the first arm that matches
make(basic, uuid) ==
    IF basic = WAVE_TAG_PCM THEN IntegerPCM
    ELSE IF basic = WAVE_TAG_FLOAT THEN IeeeFloatPCM
    ELSE IF basic = WAVE_TAG_MPEG THEN Mpeg
    ELSE IF basic = WAVE_TAG_EXTENDED /\ uuid.some
    THEN (IF uuid.uuid = WAVE_UUID_PCM THEN IntegerPCM
          ELSE IF uuid.uuid = WAVE_UUID_FLOAT THEN IeeeFloatPCM
          ELSE IF uuid.uuid = WAVE_UUID_BFORMAT_PCM THEN AmbisonicBFormatIntegerPCM
          ELSE IF uuid.uuid = WAVE_UUID_BFORMAT_FLOAT THEN AmbisonicBFormatIeeeFloatPCM
          ELSE UnknownExtended(uuid.uuid))
    ELSE UnknownBasic(basic)

\* Uuid::from_fields_le, which the source unwraps: Err unless d4 has 8
\* bytes
from_fields_le(d1, d2, d3, d4) ==
    IF Len(d4) # 8 THEN [ok |-> FALSE, uuid |-> <<>>]
    ELSE [ok |-> TRUE,
          uuid |-> SignedBytes(d1, 4) \o SignedBytes(d2, 2) \o SignedBytes(d3, 2) \o d4]

\* uuid_from_basic_tag, before the unwrap
uuid_from_basic_tag(tag) == from_fields_le(tag, 0, 16, <<0, 170, 0, 56, 155, 113>>)

Taken(kind, tag, uuid) == [kind |-> kind, tag |-> tag, uuid |-> uuid]

\* CommonFormat::take
take(f) ==
    CASE f = IntegerPCM -> Taken("ok", WAVE_TAG_PCM, WAVE_UUID_PCM)
      [] f = IeeeFloatPCM -> Taken("ok", WAVE_TAG_FLOAT, WAVE_UUID_FLOAT)
      [] f = Mpeg -> Taken("ok", WAVE_TAG_MPEG, WAVE_UUID_MPEG)
      [] f = AmbisonicBFormatIntegerPCM ->
           Taken("ok", WAVE_TAG_EXTENDED, WAVE_UUID_BFORMAT_PCM)
      [] f = AmbisonicBFormatIeeeFloatPCM ->
           Taken("ok", WAVE_TAG_EXTENDED, WAVE_UUID_BFORMAT_FLOAT)
      [] f.variant = "UnknownBasic" ->
           LET made == uuid_from_basic_tag(f.tag)
           IN  IF made.ok THEN Taken("ok", f.tag, made.uuid) ELSE Taken("panic", 0, <<>>)
      [] f.variant = "UnknownExtended" -> Taken("ok", WAVE_TAG_EXTENDED, f.uuid)

\* the arguments the model gives
SampleRates == {44100, 48000}

MaskPositions == {0, 1, 2, 3, 17, 18, 31}

Bitmaps == SUBSET MaskPositions

Tags == {0, 2, WAVE_TAG_PCM, WAVE_TAG_FLOAT, WAVE_TAG_MPEG, WAVE_TAG_EXTENDED}

Uuids ==
    {WAVE_UUID_PCM, WAVE_UUID_FLOAT, WAVE_UUID_MPEG, WAVE_UUID_BFORMAT_PCM,
     WAVE_UUID_BFORMAT_FLOAT,
     <<2, 0, 0, 0, 0, 0, 16, 0, 128, 0, 0, 170, 0, 56, 155, 113>>}

Constructors ==
    {"new_pcm_mono", "new_pcm_stereo", "new_pcm_multichannel", "new_pcm_ambisonic"}

FmtInit ==
    /\ build = "debug"
    /\ eofMode = "stay"
    /\ ParserIdle
    /\ FrameIdle
    /\ CodecIdle
    /\ WriterIdle
    /\ RawIdle
    /\ OpenedIdle
    /\ BextIdle
    /\ wavefmt = NoFmt

\* a constructor's result is a new value: the calls that follow are made on
\* it
FmtNew(r) ==
    /\ wavefmt.op = "none"
    /\ wavefmt' = r
    /\ UNCHANGED <<pvars, fvars, cvars, wvars, rvars, ovars, bvars>>

FmtReturn(r) ==
    /\ wavefmt' = r
    /\ UNCHANGED <<pvars, fvars, cvars, wvars, rvars, ovars, bvars>>

Built(op, bits, bitmap, format) ==
    [NoFmt EXCEPT !.op = op, !.bits = bits, !.bitmap = bitmap, !.format = format]

NewPcmMono ==
    \E rate \in SampleRates, bits \in 1..32 :
        FmtNew(Built("new_pcm_mono", bits, BitsOf(4), new_pcm_mono(rate, bits)))

NewPcmStereo ==
    \E rate \in SampleRates, bits \in 1..32 :
        FmtNew(Built("new_pcm_stereo", bits, BitsOf(3), new_pcm_stereo(rate, bits)))

NewPcmMultichannel ==
    \E rate \in SampleRates, bits \in 1..32, bitmap \in Bitmaps :
        FmtNew(Built("new_pcm_multichannel", bits, bitmap,
                        new_pcm_multichannel(rate, bits, bitmap)))

NewPcmAmbisonic ==
    \E rate \in SampleRates, bits \in 1..32, channel_count \in 1..MaxChannels :
        FmtNew(Built("new_pcm_ambisonic", bits, {},
                        new_pcm_ambisonic(rate, bits, channel_count)))

\* a WaveFmt { .. } that no constructor made: every field is pub, and
\* format() returns the fields a file holds
StructLiteral ==
    \E channel_count \in 0..MaxChannels, bytes \in {2, 3}, bitmap \in Bitmaps,
       extended \in BOOLEAN :
        FmtNew(Built("literal", 8 * bytes, bitmap,
            Descriptor(IF extended THEN WAVE_TAG_EXTENDED ELSE WAVE_TAG_PCM,
                       channel_count, 48000, bytes * channel_count * 48000,
                       bytes * channel_count, 8 * bytes,
                       IF extended THEN Some(8 * bytes, bitmap, WAVE_UUID_PCM)
                       ELSE None)))

Channels ==
    /\ wavefmt.op \in Constructors \cup {"literal"}
    /\ LET described == WaveFmt_channels(wavefmt.format)
       IN  FmtReturn([wavefmt EXCEPT
               !.op = "channels", !.kind = described.kind,
               !.channels = described.channels,
               !.reader_channels = WaveReader_channels(read_wave_fmt(wavefmt.format))])

Make ==
    \E basic \in Tags, uuid \in {NoUuid} \cup {SomeUuid(x) : x \in Uuids} :
        LET f == make(basic, uuid)
        IN  FmtNew([NoFmt EXCEPT !.op = "make", !.first = f, !.common = f])

Take ==
    /\ wavefmt.op = "make"
    /\ LET t == take(wavefmt.common)
       IN  FmtReturn([wavefmt EXCEPT !.op = "take", !.kind = t.kind,
                                     !.taken = [tag |-> t.tag, uuid |-> t.uuid]])

Remake ==
    /\ wavefmt.op = "take"
    /\ wavefmt.kind = "ok"
    /\ FmtReturn([wavefmt EXCEPT
           !.op = "remake",
           !.common = make(wavefmt.taken.tag, SomeUuid(wavefmt.taken.uuid))])

FmtNext ==
    \/ NewPcmMono
    \/ NewPcmStereo
    \/ NewPcmMultichannel
    \/ NewPcmAmbisonic
    \/ StructLiteral
    \/ Channels
    \/ Make
    \/ Take
    \/ Remake

FmtSpec == FmtInit /\ [][FmtNext]_vars

\* the depth rounded up to the next multiple of 8
RoundedUp(bits) == ((bits + 7) \div 8) * 8

\* C22: for every depth in 1..32 and every bitmap, the descriptor of
\* new_pcm_mono, new_pcm_stereo, new_pcm_multichannel and new_pcm_ambisonic
\* has as bits_per_sample the depth rounded up to the next multiple of 8:
\* bits_per_sample % 8 = 0, block_alignment * 8 = bits_per_sample *
\* channel_count, bytes_per_second = block_alignment * sample_rate.
C22_ContainerBits ==
    wavefmt.op \in Constructors =>
        LET f == wavefmt.format
        IN  /\ f.bits_per_sample = RoundedUp(wavefmt.bits)
            /\ f.bits_per_sample % 8 = 0
            /\ f.block_alignment * 8 = f.bits_per_sample * f.channel_count
            /\ f.bytes_per_second = f.block_alignment * f.sample_rate

\* C23: new_pcm_multichannel gives an extended record and the tag 0xFFFE
\* exactly when there are more than 2 channels, or the valid depth is not
\* the container depth, or the bitmap is neither front-center alone nor
\* front-left with front-right; otherwise the tag 0x0001 and no extended
\* record.  The tag is 0xFFFE iff there is an extended record, and
\* channel_count is the number of bits set in the bitmap.
C23_ExtendedWhenNeeded ==
    wavefmt.op \in {"new_pcm_mono", "new_pcm_stereo", "new_pcm_multichannel"} =>
        LET f == wavefmt.format
            needed == \/ f.channel_count > 2
                      \/ wavefmt.bits # f.bits_per_sample
                      \/ wavefmt.bitmap \notin {{2}, {0, 1}}
        IN  /\ f.extended_format.some <=> needed
            /\ f.tag = (IF needed THEN 65534 ELSE 1)
            /\ f.tag = 65534 <=> f.extended_format.some
            /\ f.extended_format.some =>
                  /\ f.extended_format.valid_bits_per_sample = wavefmt.bits
                  /\ f.extended_format.channel_mask = wavefmt.bitmap
            /\ f.channel_count = Cardinality(wavefmt.bitmap)

\* a stereo bitmap with a depth that needs the extended record
C23_Witness ==
    /\ wavefmt.op = "new_pcm_multichannel"
    /\ wavefmt.bitmap = {0, 1}
    /\ wavefmt.bits = 20
    /\ wavefmt.format.tag = 65534
    /\ wavefmt.format.extended_format.some

\* the i-th position of a mask, counting from 1 in ascending order
NthBit(mask, i) == CHOOSE b \in mask : Cardinality({c \in mask : c < b}) = i - 1

\* C24: for a format of more than 2 channels whose mask has only bits among
\* the positions 0..17, the descriptors name the speakers of the set bits
\* in ascending order of position, one per channel, from index 0.
C24_NamedSpeakers ==
    (/\ wavefmt.op = "channels"
     /\ wavefmt.format.channel_count > 2
     /\ wavefmt.format.extended_format.some
     /\ wavefmt.format.extended_format.channel_mask \subseteq 0..17) =>
        LET mask == wavefmt.format.extended_format.channel_mask
            named == Min2(wavefmt.format.channel_count, Cardinality(mask))
        IN  /\ wavefmt.kind = "ok"
            /\ Len(wavefmt.channels) >= named
            /\ \A i \in 1..named :
                  /\ wavefmt.channels[i].index = i - 1
                  /\ wavefmt.channels[i].speaker = ChannelMask[NthBit(mask, i) + 1]

\* C25: the list of descriptors has channel_count entries, with the
\* indices 0, 1, ... in order; the channels behind the speakers the mask
\* names are DirectOut, speakers behind channel_count are cut, and with a
\* bit set above the named ones every channel is DirectOut.  The list of
\* WaveReader::channels has the same speakers.
C25_OnePerChannel ==
    wavefmt.op = "channels" =>
        LET f == wavefmt.format
            mask == IF f.extended_format.some THEN f.extended_format.channel_mask ELSE {}
        IN  /\ wavefmt.kind = "ok"
            /\ Len(wavefmt.channels) = f.channel_count
            /\ \A i \in 1..Len(wavefmt.channels) : wavefmt.channels[i].index = i - 1
            /\ f.channel_count > 2 =>
                  \A i \in 1..Len(wavefmt.channels) :
                      (i > Cardinality(mask) \/ mask \cap 18..31 # {}) =>
                          wavefmt.channels[i].speaker = "DirectOut"
            /\ wavefmt.reader_channels = wavefmt.channels

\* C26: with f = CommonFormat::make(tag, guid) and (t, g) = f.take(),
\* CommonFormat::make(t, Some(g)) is f: an unknown basic tag N stays
\* UnknownBasic(N), an unknown GUID X stays UnknownExtended(X).
C26_MakeTakeRoundTrip ==
    /\ wavefmt.op = "take" => wavefmt.kind = "ok"
    /\ wavefmt.op = "remake" => wavefmt.common = wavefmt.first

-----------------------------------------------------------------------------
(* wavereader.rs: the validations and the metadata reads of WaveReader     *)

MaxBody == 3

FLLR_SIG == <<3, 3, 0, 1>>

\* let ds64_space_required = 92
ds64_space_required == 92

\* a value computed once and then used: let value = ...; body
With(value, body(_)) == CHOOSE out \in {body(v) : v \in {value}} : TRUE

\* Parser::make(&mut self.inner) iterated until next() returns None: the
\* events in order.  kind: "ok", "panic", or "hang" when the iteration
\* has not ended after MaxEvents events
RECURSIVE Iterate(_, _, _, _, _, _, _, _, _)
Iterate(s, st, p, a, r, tbl, evs, bld, mode) ==
    IF st = "Complete" THEN [kind |-> "ok", events |-> evs]
    ELSE IF Len(evs) >= MaxEvents THEN [kind |-> "hang", events |-> evs]
    ELSE With(CASE st = "New" ->
                     Res("ok", StartParseEv, "ReadyForHeader", 0, 0, p, tbl)
                [] st = "ReadyForHeader" -> parse_header(s, p, tbl, bld, mode)
                [] st = "ReadyForDS64" -> parse_ds64(s, p, tbl, bld, mode)
                [] st = "ReadyForChunk" -> enter_chunk(s, p, a, r, tbl, bld, mode)
                [] st = "Error" ->
                     Res("ok", FinishParseEv, "Complete", 0, 0, p, tbl),
              LAMBDA res :
                 IF res.kind = "panic" THEN [kind |-> "panic", events |-> evs]
                 ELSE Iterate(s, res.st, res.pos, res.at, res.remaining, res.ds64,
                              Append(evs, res.event), bld, mode))

\* Parser::make(&mut self.inner)?.into_chunk_list(): make seeks to 0
chunk_list(s, bld, mode) ==
    With(Iterate(s, "New", 0, 0, 0, EmptyTable, <<>>, bld, mode),
         LAMBDA run :
            IF run.kind # "ok" THEN [kind |-> run.kind, error |-> "", chunks |-> <<>>]
            ELSE With(into_chunk_list(run.events),
                      LAMBDA list :
                         IF ~list.ok
                         THEN [kind |-> "err", error |-> list.error, chunks |-> <<>>]
                         ELSE [kind |-> "ok", error |-> "", chunks |-> list.chunks]))

\* what a method of the reader returned.  kind: "ok", "err", "panic" or
\* "hang"; error: the variant of Err; signature: that of ChunkMissing;
\* actual: that of InsufficientDS64Reservation; value: the usize of Ok
Outcome(kind, error, signature, value, actual) ==
    [kind |-> kind, error |-> error, signature |-> signature, value |-> value,
     actual |-> actual]

Extent(kind, error, signature, start, length) ==
    [kind |-> kind, error |-> error, signature |-> signature, start |-> start,
     length |-> length]

\* WaveReader::get_chunk_extent_at_index over get_chunks_extents
get_chunk_extent_at_index(s, fourcc, index, bld, mode) ==
    With(chunk_list(s, bld, mode),
         LAMBDA p :
            IF p.kind # "ok" THEN Extent(p.kind, p.error, <<>>, 0, 0)
            ELSE With(SelectSeq(p.chunks, LAMBDA item : item.signature = fourcc),
                      LAMBDA extents :
                         IF index + 1 <= Len(extents)
                         THEN Extent("ok", "", <<>>, extents[index + 1].start,
                                     extents[index + 1].length)
                         ELSE Extent("err", "ChunkMissing", fourcc, 0, 0)))

Failed(e) == Outcome(e.kind, e.error, e.signature, 0, 0)

\* validate_readable without the comparison of the two positions
validate_readable_unordered(s, bld, mode) ==
    With(get_chunk_extent_at_index(s, FMT__SIG, 0, bld, mode),
         LAMBDA fmt_chunk :
            IF fmt_chunk.kind # "ok" THEN Failed(fmt_chunk)
            ELSE With(get_chunk_extent_at_index(s, DATA_SIG, 0, bld, mode),
                      LAMBDA data_chunk :
                         IF data_chunk.kind # "ok" THEN Failed(data_chunk)
                         ELSE Outcome("ok", "", <<>>, 0, 0)))

\* WaveReader::validate_readable
validate_readable(s, bld, mode) ==
    With(get_chunk_extent_at_index(s, FMT__SIG, 0, bld, mode),
         LAMBDA fmt_chunk :
            IF fmt_chunk.kind # "ok" THEN Failed(fmt_chunk)
            ELSE With(get_chunk_extent_at_index(s, DATA_SIG, 0, bld, mode),
                      LAMBDA data_chunk :
                         IF data_chunk.kind # "ok" THEN Failed(data_chunk)
                         ELSE IF fmt_chunk.start < data_chunk.start
                         THEN Outcome("ok", "", <<>>, 0, 0)
                         ELSE Outcome("err", "FmtChunkAfterData", <<>>, 0, 0)))

\* self.validate_readable()?; Parser::make(&mut self.inner)?
\* .into_chunk_list()?; then the rest of the validation on the chunks
validated(s, bld, mode, rest(_)) ==
    With(validate_readable(s, bld, mode),
         LAMBDA readable :
            IF readable.kind # "ok" THEN readable
            ELSE With(chunk_list(s, bld, mode),
                      LAMBDA p :
                         IF p.kind # "ok" THEN Outcome(p.kind, p.error, <<>>, 0, 0)
                         ELSE rest(p.chunks)))

\* WaveReader::validate_minimal
validate_minimal(s, bld, mode) ==
    validated(s, bld, mode,
              LAMBDA chunks :
                 IF [i \in 1..Len(chunks) |-> chunks[i].signature] = <<FMT__SIG, DATA_SIG>>
                 THEN Outcome("ok", "", <<>>, 0, 0)
                 ELSE Outcome("err", "NotMinimalWaveFile", <<>>, 0, 0))

\* take_while(|c| c.signature == JUNK_SIG || c.signature == FLLR_SIG)
eligible_filler_chunks(chunks) ==
    LET others == {i \in 1..Len(chunks) : chunks[i].signature \notin {JUNK_SIG, FLLR_SIG}}
    IN  SubSeq(chunks, 1, IF others = {} THEN Len(chunks) ELSE Min(others) - 1)

\* the fold over the enumerated fillers, in u64: <<panicked, accum>>
RECURSIVE fold_filler(_, _, _, _)
fold_filler(items, n, accum, bld) ==
    IF n > Len(items) THEN <<FALSE, accum>>
    ELSE LET sum == IF n = 1 THEN accum + items[n].length
                    ELSE accum + items[n].length + 8
         IN  IF sum >= U64Mod /\ bld = "debug" THEN <<TRUE, 0>>
             ELSE fold_filler(items, n + 1, Wrap64(sum), bld)

\* the fold with the same term for every filler
RECURSIVE fold_filler_lengths(_, _, _, _)
fold_filler_lengths(items, n, accum, bld) ==
    IF n > Len(items) THEN <<FALSE, accum>>
    ELSE fold_filler_lengths(items, n + 1, Wrap64(accum + items[n].length), bld)

prepared_for_append(chunks, filler) ==
    LET data == {i \in 1..Len(chunks) : chunks[i].signature = DATA_SIG}
    IN  IF filler[1] THEN Outcome("panic", "", <<>>, 0, 0)
        ELSE IF filler[2] < ds64_space_required
        THEN Outcome("err", "InsufficientDS64Reservation", <<>>, 0, filler[2])
        ELSE IF data # {} /\ Min(data) = Len(chunks) THEN Outcome("ok", "", <<>>, 0, 0)
        ELSE Outcome("err", "DataChunkNotPreparedForAppend", <<>>, 0, 0)

validate_prepared_for_append_lengths(s, bld, mode) ==
    validated(s, bld, mode,
              LAMBDA chunks :
                 With(fold_filler_lengths(eligible_filler_chunks(chunks), 1, 0, bld),
                      LAMBDA filler : prepared_for_append(chunks, filler)))

\* WaveReader::validate_prepared_for_append
validate_prepared_for_append(s, bld, mode) ==
    validated(s, bld, mode,
              LAMBDA chunks :
                 With(fold_filler(eligible_filler_chunks(chunks), 1, 0, bld),
                      LAMBDA filler : prepared_for_append(chunks, filler)))

\* buffer.resize(length as usize, 0x0)
resize(buffer, length) ==
    SubSeq(buffer, 1, Min2(Len(buffer), length)) \o Zeros(Max2(length - Len(buffer), 0))

\* WaveReader::read_chunk: Vec::resize, seek, and one read of the stream,
\* which gives the bytes there are up to the length of the buffer
read_chunk(s, ident, at_index, buffer, bld, mode) ==
    With(get_chunk_extent_at_index(s, ident, at_index, bld, mode),
         LAMBDA e :
            IF e.kind = "ok"
            THEN With(Min2(e.length, Max2(Len(s) - e.start, 0)),
                      LAMBDA n :
                         [outcome |-> Outcome("ok", "", <<>>, n, 0),
                          buffer |-> SubSeq(s, e.start + 1, e.start + n)
                                       \o SubSeq(resize(buffer, e.length), n + 1, e.length)])
            ELSE IF e.kind = "err" /\ e.error = "ChunkMissing"
            THEN [outcome |-> Outcome("ok", "", <<>>, 0, 0), buffer |-> buffer]
            ELSE [outcome |-> Failed(e), buffer |-> buffer])

\* WaveReader::read_ixml
read_ixml(s, buffer, bld, mode) == read_chunk(s, IXML_SIG, 0, buffer, bld, mode)

\* WaveReader::read_axml
read_axml(s, buffer, bld, mode) == read_chunk(s, AXML_SIG, 0, buffer, bld, mode)

\* the files the model opens: leading fillers, then chunks
FileChunk(sig, n) == Chunk(sig, n, Padded(n))

\* the fillers a file begins with: none, one, or two whose lengths and
\* the header of the second make 91, 92 or more
Reservations ==
    {<<>>,
     <<FileChunk(JUNK_SIG, ds64_space_required)>>,
     <<FileChunk(JUNK_SIG, 40)>>,
     <<FileChunk(FLLR_SIG, 96)>>,
     <<FileChunk(JUNK_SIG, 40), FileChunk(FLLR_SIG, 44)>>,
     <<FileChunk(JUNK_SIG, 40), FileChunk(FLLR_SIG, 43)>>,
     <<FileChunk(FLLR_SIG, 44), FileChunk(JUNK_SIG, 50)>>}

BodyKinds ==
    {FileChunk(FMT__SIG, 2), FileChunk(DATA_SIG, 2), FileChunk(IXML_SIG, 3),
     FileChunk(AXML_SIG, 2)}

FileChunks ==
    {f \o b : f \in Reservations, b \in SeqsUpTo(BodyKinds, MaxBody)}
      \cup {<<FileChunk(FMT__SIG, 2), FileChunk(JUNK_SIG, ds64_space_required),
              FileChunk(DATA_SIG, 2)>>}

\* the content of a chunk: metadata is text, the rest zeros
Content(c) ==
    [i \in 1..c.content |->
        IF c.sig \in {IXML_SIG, AXML_SIG} /\ i <= c.field THEN 1 + (i % 3) ELSE 0]

FileChunkBytes(cs) ==
    Concat([i \in 1..Len(cs) |-> cs[i].sig \o LEBytes(cs[i].field, 4) \o Content(cs[i])])

RiffFile(cs) == RIFF_SIG \o LEBytes(4 + ChunksLength(cs), 4) \o WAVE_SIG \o FileChunkBytes(cs)

\* the RF64 form of the same chunks: the size of data is in the ds64 chunk
Rf64File(form, cs) ==
    LET marked == [i \in 1..Len(cs) |->
                     IF cs[i].sig = DATA_SIG
                     THEN Chunk(DATA_SIG, RF64_SIZE_MARKER, cs[i].content) ELSE cs[i]]
        d == Ds64(DS64_SIG, 28, 4 + 8 + 28 + ChunksLength(cs), <<2, <<>>>>, 0, 0)
    IN  form \o LEBytes(RF64_SIZE_MARKER, 4) \o WAVE_SIG \o Ds64Bytes(d)
          \o FileChunkBytes(marked)

Files ==
    {RiffFile(cs) : cs \in {c \in FileChunks : 4 + ChunksLength(c) <= U32Max}}
      \cup {Rf64File(form, cs) : form \in {RF64_SIG, BW64_SIG},
                                 cs \in SeqsUpTo(BodyKinds, MaxBody)}
      \cup {LayoutBytes(l) : l \in HeaderLayouts}

\* what the caller's Vec holds before a read
Buffers == {<<>>, <<3>>, <<3, 3, 3, 3>>}

OpenedInit ==
    /\ build \in {"debug", "release"}
    /\ eofMode = "stay"
    /\ ParserIdle
    /\ FrameIdle
    /\ CodecIdle
    /\ WriterIdle
    /\ RawIdle
    /\ FmtIdle
    /\ BextIdle
    /\ \E s \in Files : opened = [NoOpened EXCEPT !.inner = s]

Returns(op, o, open, before, buffer) ==
    /\ opened' = [opened EXCEPT !.op = op, !.kind = o.kind, !.error = o.error,
                                !.signature = o.signature, !.value = o.value,
                                !.actual = o.actual, !.open = open,
                                !.before = before, !.buffer = buffer]
    /\ UNCHANGED <<pvars, fvars, cvars, wvars, rvars, dvars, bvars>>

\* WaveReader::new: Ok(retval) when validate_readable is Ok
WaveReaderNew ==
    /\ opened.op = "none"
    /\ \E o \in {validate_readable(opened.inner, build, eofMode)} :
          Returns("new", o, o.kind = "ok", <<>>, <<>>)

ValidateReadable ==
    /\ opened.open
    /\ \E o \in {validate_readable(opened.inner, build, eofMode)} :
          Returns("validate_readable", o, TRUE, <<>>, <<>>)

ValidateMinimal ==
    /\ opened.open
    /\ \E o \in {validate_minimal(opened.inner, build, eofMode)} :
          Returns("validate_minimal", o, TRUE, <<>>, <<>>)

ValidatePreparedForAppend ==
    /\ opened.open
    /\ \E o \in {validate_prepared_for_append(opened.inner, build, eofMode)} :
          Returns("validate_prepared_for_append", o, TRUE, <<>>, <<>>)

ReadIxml ==
    /\ opened.open
    /\ \E buffer \in Buffers :
          \E r \in {read_ixml(opened.inner, buffer, build, eofMode)} :
             Returns("read_ixml", r.outcome, TRUE, buffer, r.buffer)

ReadAxml ==
    /\ opened.open
    /\ \E buffer \in Buffers :
          \E r \in {read_axml(opened.inner, buffer, build, eofMode)} :
             Returns("read_axml", r.outcome, TRUE, buffer, r.buffer)

OpenedNext ==
    \/ WaveReaderNew
    \/ ValidateReadable
    \/ ValidateMinimal
    \/ ValidatePreparedForAppend
    \/ ReadIxml
    \/ ReadAxml

OpenedSpec == OpenedInit /\ [][OpenedNext]_vars

\* the chunk directory of the file: into_chunk_list of the parser's events
Directory == chunk_list(opened.inner, build, eofMode)

Starts(sig) ==
    {Directory.chunks[i].start :
        i \in {j \in 1..Len(Directory.chunks) : Directory.chunks[j].signature = sig}}

\* C27: WaveReader::new and validate_readable succeed iff the directory
\* has a fmt chunk and a data chunk and the first fmt chunk starts before
\* the first data chunk; they fail with ChunkMissing, naming a signature
\* that is absent, when one is absent, and with FmtChunkAfterData when the
\* first fmt follows the first data.
C27_Readable ==
    (opened.op \in {"new", "validate_readable"} /\ Directory.kind = "ok") =>
        LET fmts == Starts(FMT__SIG)
            datas == Starts(DATA_SIG)
        IN  /\ opened.kind = "ok" <=>
                  (fmts # {} /\ datas # {} /\ Min(fmts) < Min(datas))
            /\ (fmts = {} \/ datas = {}) =>
                  /\ opened.kind = "err"
                  /\ opened.error = "ChunkMissing"
                  /\ opened.signature \in {FMT__SIG, DATA_SIG}
                  /\ Starts(opened.signature) = {}
            /\ (fmts # {} /\ datas # {} /\ Min(fmts) > Min(datas)) =>
                  opened.kind = "err" /\ opened.error = "FmtChunkAfterData"

\* new has refused a file whose fmt chunk follows its data chunk
C27_Witness ==
    /\ opened.op = "new"
    /\ opened.error = "FmtChunkAfterData"
    /\ Starts(FMT__SIG) # {}

Signatures == [i \in 1..Len(Directory.chunks) |-> Directory.chunks[i].signature]

IsRf64 == read_fourcc(opened.inner, 0) \in {RF64_SIG, BW64_SIG}

\* C28: validate_minimal returns Ok exactly for the readable files that are
\* not RF64/BW64 and whose chunk list is fmt, data and nothing else; with
\* any other chunk, and in RF64/BW64 form, it fails with
\* NotMinimalWaveFile.
C28_Minimal ==
    opened.op = "validate_minimal" =>
        IF ~IsRf64 /\ Signatures = <<FMT__SIG, DATA_SIG>>
        THEN opened.kind = "ok"
        ELSE opened.kind = "err" /\ opened.error = "NotMinimalWaveFile"

\* the run of fillers the chunk list begins with
LeadingFillers ==
    LET s == Signatures
    IN  {i \in 1..Len(s) : \A j \in 1..i : s[j] \in {JUNK_SIG, FLLR_SIG}}

Reserved ==
    SumSeq([i \in 1..Cardinality(LeadingFillers) |->
              Directory.chunks[i].length + (IF i = 1 THEN 0 ELSE 8)])

\* the data chunk, the first of that signature, is the last chunk
DataIsLast ==
    /\ Signatures # <<>>
    /\ Signatures[Len(Signatures)] = DATA_SIG
    /\ \A i \in 1..(Len(Signatures) - 1) : Signatures[i] # DATA_SIG

ContentOf(sig) ==
    LET found == {i \in 1..Len(Signatures) : Signatures[i] = sig}
        c == Directory.chunks[Min(found)]
    IN  IF found = {} THEN <<>> ELSE SubSeq(opened.inner, c.start + 1, c.start + c.length)

\* C30: read_ixml and read_axml append the bytes of the chunk to the
\* caller's buffer: the buffer is what it held followed by the content of
\* the chunk, the count returned is the length of the chunk; without the
\* chunk they return Ok(0) and leave the buffer as it was.
C30_ReadMetadata ==
    \A op \in {"read_ixml", "read_axml"} :
        opened.op = op =>
            LET content == ContentOf(IF op = "read_ixml" THEN IXML_SIG ELSE AXML_SIG)
            IN  /\ opened.kind = "ok"
                /\ opened.value = Len(content)
                /\ opened.buffer = opened.before \o content

-----------------------------------------------------------------------------
(* chunks.rs: the Broadcast-WAV record, write_bext and read_bext.  Bytes    *)
(* are 8-bit here.  A String is the sequence of its character codes; an    *)
(* Option is <<>> (None) or <<v>> (Some(v)); a loudness is in hundredths   *)
(* of a unit, and only values whose product with 100.0 is exact are used.  *)

\* ASCII.encode(&string, EncoderTrap::Ignore)
ASCII_encode(string) == SelectSeq(string, LAMBDA c : c < 128)

\* ASCII.decode(&bytes, DecoderTrap::Ignore)
ASCII_decode(bytes) == SelectSeq(bytes, LAMBDA c : c < 128)

\* write_bext_string_field: truncate to length, fill with zeros
write_bext_string_field(string, length) ==
    LET buf == SubSeq(ASCII_encode(string), 1, Min2(Len(ASCII_encode(string)), length))
    IN  buf \o Zeros(length - Len(buf))

\* write_u64::<LittleEndian> of a value below 2^32
write_u64(v) == SignedBytes(v, 4) \o Zeros(4)

\* write_i16::<LittleEndian>((x.unwrap_or(0.0) * 100.0) as i16)
write_loudness(x) ==
    LET v == IF x = <<>> THEN 0 ELSE x[1]
    IN  SignedBytes(Max2(-32768, Min2(32767, v)), 2)

\* for _ in 0..=180 { self.read_u8()?; }: the number of bytes read
read_bext_reserved == 181

\* WriteBWaveChunks::write_bext
write_bext(bext) ==
    write_bext_string_field(bext.description, 256)
      \o write_bext_string_field(bext.originator, 32)
      \o write_bext_string_field(bext.originator_reference, 32)
      \o write_bext_string_field(bext.origination_date, 10)
      \o write_bext_string_field(bext.origination_time, 8)
      \o write_u64(bext.time_reference)
      \o SignedBytes(bext.version, 2)
      \o (IF bext.umid = <<>> THEN Zeros(64) ELSE bext.umid[1])
      \o write_loudness(bext.loudness_value)
      \o write_loudness(bext.loudness_range)
      \o write_loudness(bext.max_true_peak_level)
      \o write_loudness(bext.max_momentary_loudness)
      \o write_loudness(bext.max_short_term_loudness)
      \o Zeros(180)
      \o ASCII_encode(bext.coding_history)

\* read_bext_string_field at offset p: the bytes before the first zero
read_bext_string_field(s, p, length) ==
    LET buffer == SubSeq(s, p + 1, p + length)
        zeros == {i \in 1..length : buffer[i] = 0}
    IN  ASCII_decode(SubSeq(buffer, 1, IF zeros = {} THEN length ELSE Min(zeros) - 1))

\* ReadBWaveChunks::read_bext on a stream of s: [kind, bext].  A stream
\* that ends before the last byte read by read_exact gives Err
read_bext(s) ==
    LET version == UnsignedLE(SubSeq(s, 347, 348))
        loudness(p) == IF version > 1 THEN <<SignedLE(SubSeq(s, p + 1, p + 2))>> ELSE <<>>
    IN  IF Len(s) < 422 + read_bext_reserved
        THEN [kind |-> "err", bext |-> NoBextRecord]
        ELSE [kind |-> "ok",
              bext |->
                [description |-> read_bext_string_field(s, 0, 256),
                 originator |-> read_bext_string_field(s, 256, 32),
                 originator_reference |-> read_bext_string_field(s, 288, 32),
                 origination_date |-> read_bext_string_field(s, 320, 10),
                 origination_time |-> read_bext_string_field(s, 330, 8),
                 time_reference |-> UnsignedLE(SubSeq(s, 339, 346)),
                 version |-> version,
                 umid |-> IF version > 0 THEN <<SubSeq(s, 349, 412)>> ELSE <<>>,
                 loudness_value |-> loudness(412),
                 loudness_range |-> loudness(414),
                 max_true_peak_level |-> loudness(416),
                 max_momentary_loudness |-> loudness(418),
                 max_short_term_loudness |-> loudness(420),
                 coding_history |->
                     ASCII_decode(SubSeq(s, 422 + read_bext_reserved + 1, Len(s)))]]

\* the records given to write_bext
Texts == {<<>>, <<66, 87, 70>>}

Dates == {<<>>, <<50, 48, 50, 48, 45, 49, 50, 45, 51, 49>>}

Histories == {<<>>, <<65>>, <<65, 61, 80, 67, 77>>}

Umids == {<<>>, <<[i \in 1..64 |-> i]>>}

Loudnesses == {<<>>, <<-2300>>}

Bexts ==
    {[NoBextRecord EXCEPT !.description = t, !.origination_date = d,
                          !.time_reference = r, !.version = v, !.umid = u,
                          !.loudness_value = l, !.coding_history = h] :
        t \in Texts, d \in Dates, r \in {0, 172800000}, v \in 0..2, u \in Umids,
        l \in Loudnesses, h \in Histories}

BextInit ==
    /\ build = "debug"
    /\ eofMode = "stay"
    /\ ParserIdle
    /\ FrameIdle
    /\ CodecIdle
    /\ WriterIdle
    /\ RawIdle
    /\ FmtIdle
    /\ OpenedIdle
    /\ BextIdle

WriteBext ==
    /\ bextio.op = "none"
    /\ \E bext \in Bexts :
          bextio' = [bextio EXCEPT !.op = "write_bext", !.bext = bext,
                                   !.bytes = write_bext(bext)]
    /\ UNCHANGED <<pvars, fvars, cvars, wvars, rvars, dvars, ovars>>

ReadBext ==
    /\ bextio.op = "write_bext"
    /\ \E r \in {read_bext(bextio.bytes)} :
          bextio' = [bextio EXCEPT !.op = "read_bext", !.kind = r.kind, !.read = r.bext]
    /\ UNCHANGED <<pvars, fvars, cvars, wvars, rvars, dvars, ovars>>

BextNext ==
    \/ WriteBext
    \/ ReadBext

BextSpec == BextInit /\ [][BextNext]_vars

\* C31: a record written by write_bext is 602 fixed bytes (the reserved 180
\* are the last of them) followed by the coding history, and read_bext of
\* those bytes succeeds and returns the same text fields, time reference,
\* version and coding history, also when the coding history is empty.
C31_BextRoundTrip ==
    /\ bextio.op # "none" =>
          /\ Len(bextio.bytes) = 602 + Len(bextio.bext.coding_history)
          /\ SubSeq(bextio.bytes, 423, 602) = Zeros(180)
          /\ SubSeq(bextio.bytes, 603, Len(bextio.bytes)) = bextio.bext.coding_history
    /\ bextio.op = "read_bext" =>
          /\ bextio.kind = "ok"
          /\ bextio.read.description = bextio.bext.description
          /\ bextio.read.originator = bextio.bext.originator
          /\ bextio.read.originator_reference = bextio.bext.originator_reference
          /\ bextio.read.origination_date = bextio.bext.origination_date
          /\ bextio.read.origination_time = bextio.bext.origination_time
          /\ bextio.read.time_reference = bextio.bext.time_reference
          /\ bextio.read.version = bextio.bext.version
          /\ bextio.read.coding_history = bextio.bext.coding_history

-----------------------------------------------------------------------------
(* The order of the parser's events *)

HeaderEvents == {"ReadHeader", "ReadRF64Header"}

\* one call of next(), by what the call before it and this call returned
ProtocolStep ==
    /\ lastEvent = NotCalledEv <=> lastEvent'.type = "StartParse"
    /\ lastEvent'.type = "BeginChunk" =>
          /\ \E i \in 1..Len(events) : events[i].type \in HeaderEvents
          /\ lastEvent.type \in HeaderEvents \cup {"ReadDS64", "BeginChunk"}
          /\ Indices(events, "Failed") \cup Indices(events, "FinishParse") = {}
    /\ lastEvent'.type = "ReadDS64" => lastEvent.type = "ReadRF64Header"
    /\ lastEvent.type = "Failed" => lastEvent'.type = "FinishParse"
    /\ lastEvent.type \in {"FinishParse", "None"} => lastEvent'.type = "None"

\* C32: the first event is StartParse; a header event precedes every
\* BeginChunk; ReadDS64 follows ReadRF64Header directly; after Failed comes
\* FinishParse and nothing else; after FinishParse next() returns None for
\* ever; no BeginChunk follows Failed or FinishParse; and every run does
\* return FinishParse.
C32_EventProtocol == [][ProtocolStep]_vars /\ <>(lastEvent.type = "FinishParse")

\* the order of the events alone, without the promise of a FinishParse
C32_Order == [][ProtocolStep]_vars

\* the 12 bytes of the header of the stream, when it has them
HeaderSig == read_fourcc(stream, 0)

HeaderSize == read_uint(stream, 4, 4)

HeaderList == read_fourcc(stream, 8)

Recognized ==
    \/ HeaderSig = RIFF_SIG /\ HeaderList = WAVE_SIG
    \/ HeaderSig \in {RF64_SIG, BW64_SIG} /\ HeaderSize = RF64_SIZE_MARKER
          /\ HeaderList = WAVE_SIG

\* C33: a 12-byte header is accepted only as (RIFF, any size, WAVE) or
\* (RF64 or BW64, 0xFFFFFFFF, WAVE); for every other header the event is
\* Failed(HeaderNotRecognized), no BeginChunk is returned, and
\* into_chunk_list returns that error.
C33_HeaderRecognized ==
    (Len(stream) >= 12 /\ Len(events) >= 2) =>
        /\ events[2].type \in HeaderEvents => Recognized
        /\ ~Recognized =>
              /\ events[2] = FailedEv("HeaderNotRecognized")
              /\ Indices(events, "BeginChunk") = {}
              /\ ListReturned =>
                    /\ ~into_chunk_list(events).ok
                    /\ into_chunk_list(events).error = "HeaderNotRecognized"

\* the directory of an RF64 stream whose size field is not the marker
C33_Witness ==
    /\ ListReturned
    /\ Len(stream) >= 12
    /\ HeaderSig = RF64_SIG
    /\ HeaderList = WAVE_SIG
    /\ HeaderSize # RF64_SIZE_MARKER
    /\ into_chunk_list(events).error = "HeaderNotRecognized"

\* C34: in an RF64/BW64 stream whose first chunk after the header is not
\* ds64 the parse fails with MissingRequiredDS64 and no chunk is reported;
\* when the ds64 chunk is there, the next chunk header is read at offset
\* 12 + 8 + the declared size of the ds64 chunk.
C34_Ds64Required ==
    [][ /\ (state = "ReadyForDS64" /\ ReadOk(stream, pos, 8)) =>
              IF read_fourcc(stream, pos) # DS64_SIG
              THEN /\ lastEvent' = FailedEv("MissingRequiredDS64")
                   /\ state' = "Error"
                   /\ ~into_chunk_list(events').ok
                   /\ into_chunk_list(events').error = "MissingRequiredDS64"
              ELSE lastEvent'.type = "ReadDS64" =>
                      pos' = 12 + 8 + read_uint(stream, pos + 4, 4)
        /\ state = "Error" => lastEvent'.type = "FinishParse"
      ]_vars

\* C37: whenever the parser is in ReadyForChunk{at, remaining}, at is the
\* position of the stream, so every content_start reported is the offset
\* of the first content byte of the chunk: 8 past the offset its header
\* was read at.
C37_AtIsStreamPosition ==
    [][ /\ state' = "ReadyForChunk" => at' = pos'
        /\ lastEvent'.type = "BeginChunk" => lastEvent'.start = pos + 8
      ]_vars

\* the index in events of the k-th BeginChunk
NthBegin(k) ==
    CHOOSE i \in Indices(events, "BeginChunk") :
        Cardinality({j \in Indices(events, "BeginChunk") : j <= i}) = k

\* C35: into_chunk_list returns the whole directory or the first error,
\* never a part of the directory: Err(e) exactly when a Failed event was
\* returned, e being that of the first, whatever chunks came before it;
\* else every BeginChunk in the order of the events.
C35_WholeDirectoryOrError ==
    ListReturned =>
        LET r == into_chunk_list(events)
            failed == Indices(events, "Failed")
            begins == Indices(events, "BeginChunk")
        IN  /\ r.ok <=> failed = {}
            /\ ~r.ok => r.chunks = <<>> /\ r.error = events[Min(failed)].error
            /\ r.ok =>
                  /\ Len(r.chunks) = Cardinality(begins)
                  /\ \A k \in 1..Len(r.chunks) :
                        /\ r.chunks[k].signature = events[NthBegin(k)].signature
                        /\ r.chunks[k].start = events[NthBegin(k)].start
                        /\ r.chunks[k].length = events[NthBegin(k)].length

\* an error after two chunks were found
C35_Witness ==
    /\ ListReturned
    /\ Cardinality(Indices(events, "BeginChunk")) = 2
    /\ Indices(events, "Failed") # {}
    /\ ~into_chunk_list(events).ok

\* C36: after a RIFF header with the size field n the traversal starts
\* with at = 12 and remaining = n - 4, a count that is not negative; every
\* chunk step takes 8 + the padded length of the chunk from remaining,
\* which never wraps: a form size below 4, or smaller than the chunks
\* that are there, gives a Failed event.
C36_RemainingNeverWraps ==
    [][ /\ (state = "ReadyForHeader" /\ ReadOk(stream, pos, 12)
              /\ read_fourcc(stream, pos) = RIFF_SIG
              /\ read_fourcc(stream, pos + 8) = WAVE_SIG) =>
              IF read_uint(stream, pos + 4, 4) >= 4
              THEN /\ state' = "ReadyForChunk"
                   /\ at' = 12
                   /\ remaining' = read_uint(stream, pos + 4, 4) - 4
              ELSE lastEvent'.type = "Failed"
        /\ (state = "ReadyForChunk" /\ remaining > 0 /\ ReadOk(stream, pos, 8)
              /\ ds64state = EmptyTable) =>
              LET taken == 8 + Padded(read_uint(stream, pos + 4, 4))
              IN  IF taken <= remaining
                  THEN lastEvent'.type = "BeginChunk" => remaining' = remaining - taken
                  ELSE lastEvent'.type = "Failed"
      ]_vars

-----------------------------------------------------------------------------
(* The files of the writer, read *)

\* WaveReader::frame_length: the length of data by the block_alignment
\* that read_wave_fmt finds in the fmt chunk
frame_length(s, bld, mode) ==
    With(get_chunk_extent_at_index(s, DATA_SIG, 0, bld, mode),
         LAMBDA data :
            IF data.kind # "ok" THEN Failed(data)
            ELSE With(get_chunk_extent_at_index(s, FMT__SIG, 0, bld, mode),
                      LAMBDA format :
                         IF format.kind # "ok" THEN Failed(format)
                         ELSE IF ~ReadOk(s, format.start, 16)
                         THEN Outcome("err", "IOError", <<>>, 0, 0)
                         ELSE IF read_uint(s, format.start + 12, 2) = 0
                         THEN Outcome("panic", "", <<>>, 0, 0)
                         ELSE Outcome("ok", "", <<>>,
                                      data.length \div read_uint(s, format.start + 12, 2),
                                      0)))

\* end() has returned the WaveWriter of a file with audio
Produced == wave.stage = "writer" /\ done.audio = 1

\* the bytes write_integer_frames was given for the data chunk
AudioWritten ==
    LET data == {i \in 1..Len(done.chunks) : done.chunks[i].sig = DATA_SIG}
    IN  done.chunks[Min(data)].written

\* C38: a file made by WaveWriter (new, metadata chunks, audio_frame_writer,
\* writes of frames, end) is accepted by the reader: the parser lists the
\* chunks in the order they were appended, WaveReader::new succeeds,
\* validate_prepared_for_append returns Ok when data is the chunk appended
\* last, and frame_length is the number of frames written.
C38_WriterFilesRead ==
    Produced =>
        LET list == chunk_list(wave.inner, build, "stay")
            n == Len(done.chunks)
        IN  /\ list.kind = "ok"
            /\ [i \in 1..Len(list.chunks) |-> list.chunks[i].signature]
                  = [i \in 1..n |-> done.chunks[i].sig]
            /\ validate_readable(wave.inner, build, "stay").kind = "ok"
            /\ done.chunks[n].sig = DATA_SIG =>
                  validate_prepared_for_append(wave.inner, build, "stay").kind = "ok"
            /\ frame_length(wave.inner, build, "stay").kind = "ok"
            /\ frame_length(wave.inner, build, "stay").value
                  = AudioWritten \div wave.format.block_alignment

-----------------------------------------------------------------------------
(* The count write_integer_frames returns *)

\* a write_integer_frames call that returned Ok
WroteFrames == call'.op = "write" /\ call'.kind = "ok" /\ written' # written

\* C39: write_integer_frames, given a buffer of k * channel_count samples,
\* appends exactly k * block_alignment bytes to the data chunk and returns k,
\* the number of frames written, for every bit depth and channel count.
C39_WriteFramesCount ==
    [][WroteFrames =>
          LET k == call'.n \div writer.format.channel_count
          IN  /\ writer'.length = writer.length + k * writer.format.block_alignment
              /\ Len(writer'.bytes) = Len(writer.bytes) + k * writer.format.block_alignment
              /\ call'.value = k]_vars

====
